---- MODULE Spec2Model ----
(***************************************************************************)
(* Model of the canvas particle background (ParticleBackground.js):        *)
(* class Particle, class ParticleSystem, the hook useParticleSystem and    *)
(* the component ParticleBackground.                                       *)
(*                                                                         *)
(* The other units of the page follow further down, each under its own    *)
(* specification: SpecFrame, SpecConfig, SpecTyping, SpecTypingLoop,       *)
(* SpecScroll, SpecNav, SpecValidator, SpecContact and SpecWorker.         *)
(*                                                                         *)
(* Three specifications share the particle background:                     *)
(*   SpecParticle  one Particle on its canvas, driven by update(mx, my);   *)
(*   Spec          the component and its ParticleSystem objects under      *)
(*                 renders, visibility changes, animation frames and       *)
(*                 pointer events;                                         *)
(*   SpecResize    the component and its ParticleSystem objects under      *)
(*                 renders, window resizes and throttle timeouts.          *)
(* Spec and SpecResize run the same component; the frame loop reads and    *)
(* writes animationId, lastTime and the frame queue only, resize handling  *)
(* the canvas, particles, inThrottle and the timers only.                  *)
(*                                                                         *)
(* JavaScript numbers are carried as fixed-point values: a length or a     *)
(* velocity is an integer count of 1/Scale px, and a value that the code   *)
(* computes as NaN is the value NaN.  Every number is a record             *)
(* [kind, v] so that numbers, NaN and null compare with one another.       *)
(***************************************************************************)
EXTENDS Integers, Sequences, FiniteSets, TLC

VARIABLES
    particle,   \* SpecParticle: the fields of one Particle
    canvas,     \* the <canvas> element: [width, height] in px
    config,     \* the configuration object handed to Particle / ParticleSystem
    ticks,      \* SpecParticle: how many times update() has run
    window,     \* [innerWidth, innerHeight] in px
    hidden,     \* document.hidden
    now,        \* the clock, in 1/TimeScale ms
    mounted,    \* a ParticleBackground is mounted
    particleSystemRef,   \* particleSystemRef.current: a system, or 0 for null
    visibilityListeners, \* the visibilitychange handlers on document, each
                         \* named by the particleSystem its closure captured
    systems,    \* every ParticleSystem constructed so far, by number
    rafCallbacks,  \* pending requestAnimationFrame callbacks: [id, sys]
    timers,     \* pending throttle timeouts: [sys, due]
    resizeRuns, \* per system, the times at which handleResize ran
    particles,  \* SpecFrame: this.particles of system 1, the Particle objects
    ctx,        \* SpecFrame: this.ctx of system 1 is a context (FALSE: null)
    steps,      \* SpecFrame: what the last call of animate() did, in order
    thrown,     \* SpecFrame: the last call of animate() threw a TypeError
    animateTime,   \* SpecFrame: currentTime of the last call of animate(),
                   \* NoTime before the first call
    props,      \* SpecConfig: the config prop the embedding page passes
    \* useTypingAnimation (SpecTyping)
    texts,             \* the texts argument, each text a sequence of characters
    loop,              \* options.loop
    currentTextIndex, currentText, isTyping, isStarted, isPaused,
    typingTimer,       \* the callback of the pending setTimeout, or "none"
    \* useScrollAnimation (SpecScroll)
    triggerOnce,       \* options.triggerOnce
    scrollMounted,     \* the component that uses the hook is mounted
    isVisible,
    observing,         \* the observer of the current effect observes the element
    entries,           \* the isIntersecting values delivered since the mount
    \* App and NavigationService (SpecNav)
    appMounted,        \* App is mounted
    services,          \* how many NavigationService objects App constructed
    hashListeners,     \* the hashchange listeners on window, each named by
                       \* the number of the service that registered it
    navTimers,         \* pending setTimeout callbacks of setupHashNavigation:
                       \* the section each will navigate to
    locationHash,      \* window.location.hash, as a sequence of parts
    scrollBehavior,    \* document.documentElement.style.scrollBehavior
    navigated,         \* the navigateToSection calls of the last event:
                       \* a sequence of [service, section]
    \* FormValidator (SpecValidator)
    rules,             \* this.rules: field name -> sequence of validators
    errors,            \* this.errors: field name -> message
    returned,          \* what the last call of validateAll returned, with
                       \* its argument (input)
    fresh,             \* validateAll was the last method called
    \* ContactFormspree (SpecContact)
    formData,          \* the formData state: field name -> text
    formErrors,        \* the errors state: field name -> message or null
    status,
    submitMessage,
    requests,          \* the fetch calls that have not settled: their bodies
    lastEvent,         \* the handler that ran last
    \* the service worker (SpecWorker)
    caches,            \* CacheStorage: cache name -> the URLs it holds
    lastFetch,         \* how the last fetch event was answered
    workerState        \* "parsed", "installed" or "activated"

\* the variables of the particle background
bvars == <<particle, canvas, config, ticks, window, hidden, now, mounted,
           particleSystemRef, visibilityListeners, systems, rafCallbacks,
           timers, resizeRuns>>

cvars == <<window, hidden, now, mounted, particleSystemRef, visibilityListeners,
           systems, rafCallbacks, timers, resizeRuns>>

\* the variables of the frame work of one system
fvars == <<particles, ctx, steps, thrown, animateTime>>

\* no time: animate() was not called yet
NoTime == 0 - 1

\* the variables of the other hooks and services of the page
tvars == <<texts, loop, currentTextIndex, currentText, isTyping, isStarted,
           isPaused, typingTimer>>

svars == <<triggerOnce, scrollMounted, isVisible, observing, entries>>

nvars == <<appMounted, services, hashListeners, navTimers, locationHash,
           scrollBehavior, navigated>>

vvars == <<rules, errors, returned, fresh>>

kvars == <<formData, formErrors, status, submitMessage, requests, lastEvent>>

wvars == <<caches, lastFetch, workerState>>

xvars == <<vvars, kvars, wvars>>

hvars == <<props, tvars, svars, nvars, xvars>>

vars == <<bvars, fvars, hvars>>

\* no frame work is followed
FrameIdle ==
    /\ particles = << >>
    /\ ctx = TRUE
    /\ steps = << >>
    /\ thrown = FALSE
    /\ animateTime = NoTime

\* no other hook or service is followed
TypingIdle ==
    /\ texts = << >>
    /\ loop = TRUE
    /\ currentTextIndex = 0
    /\ currentText = << >>
    /\ isTyping = TRUE
    /\ isStarted = FALSE
    /\ isPaused = FALSE
    /\ typingTimer = "none"

ScrollIdle ==
    /\ triggerOnce = TRUE
    /\ scrollMounted = FALSE
    /\ isVisible = FALSE
    /\ observing = FALSE
    /\ entries = << >>

NavIdle ==
    /\ appMounted = FALSE
    /\ services = 0
    /\ hashListeners = {}
    /\ navTimers = << >>
    /\ locationHash = << >>
    /\ scrollBehavior = "auto"
    /\ navigated = << >>

ConfigIdle == props = << >>

\* no FormValidator is followed
ValidatorIdle ==
    /\ rules = << >>
    /\ errors = << >>
    /\ returned = << >>
    /\ fresh = FALSE

\* no ContactFormspree is followed
ContactIdle ==
    /\ formData = << >>
    /\ formErrors = << >>
    /\ status = "idle"
    /\ submitMessage = ""
    /\ requests = << >>
    /\ lastEvent = "none"

\* no service worker is followed
WorkerIdle ==
    /\ caches = << >>
    /\ lastFetch = << >>
    /\ workerState = "parsed"

ExtraIdle == ValidatorIdle /\ ContactIdle /\ WorkerIdle

HooksIdle == ConfigIdle /\ TypingIdle /\ ScrollIdle /\ NavIdle /\ ExtraIdle

-----------------------------------------------------------------------------
(* JavaScript values *)

Num(n) == [kind |-> "num", v |-> n]
NaN == [kind |-> "nan", v |-> 0]
Null == [kind |-> "null", v |-> 0]

IsNum(a) == a.kind = "num"

\* units of 1/Scale px per px
Scale == 100

Px(n) == n * Scale

\* integer quotient rounded toward zero
Quot(a, b) ==
    IF (a >= 0) = (b > 0) THEN a \div b ELSE -((-a) \div b)

Abs(n) == IF n < 0 THEN -n ELSE n

\* the largest r of lo..hi with r * r <= n, by bisection
RECURSIVE SqrtBetween(_, _, _)
SqrtBetween(n, lo, hi) ==
    IF lo = hi THEN lo
    ELSE LET mid == (lo + hi + 1) \div 2
         IN  IF mid * mid <= n THEN SqrtBetween(n, mid, hi)
                               ELSE SqrtBetween(n, lo, mid - 1)

\* Math.sqrt on a non-negative integer, rounded down
ISqrt(n) == SqrtBetween(n, 0, IF n < 46340 THEN n ELSE 46340)

FAdd(a, b) == IF IsNum(a) /\ IsNum(b) THEN Num(a.v + b.v) ELSE NaN
FSub(a, b) == IF IsNum(a) /\ IsNum(b) THEN Num(a.v - b.v) ELSE NaN
FNeg(a) == IF IsNum(a) THEN Num(-a.v) ELSE NaN
\* a comparison with NaN is false
FLt(a, b) == IsNum(a) /\ IsNum(b) /\ a.v < b.v
FGt(a, b) == IsNum(a) /\ IsNum(b) /\ a.v > b.v
\* Math.max / Math.min return NaN when an argument is NaN
FMax(a, b) == IF IsNum(a) /\ IsNum(b) THEN (IF a.v > b.v THEN a ELSE b) ELSE NaN
FMin(a, b) == IF IsNum(a) /\ IsNum(b) THEN (IF a.v < b.v THEN a ELSE b) ELSE NaN
\* Math.sqrt(dx * dx + dy * dy)
FHypot(dx, dy) ==
    IF IsNum(dx) /\ IsNum(dy) THEN Num(ISqrt(dx.v * dx.v + dy.v * dy.v)) ELSE NaN

-----------------------------------------------------------------------------
(* PARTICLE_CONFIG and BREAKPOINTS *)

\* lengths and speeds in 1/Scale px, opacities in 1/100
PARTICLE_CONFIG ==
    [ count       |-> [desktop |-> 150, tablet |-> 100, mobile |-> 50],
      size        |-> [min |-> Px(1), max |-> Px(3)],
      speed       |-> [min |-> Px(1) \div 10, max |-> Px(5) \div 10],
      colors      |-> 4,
      connections |-> [enabled |-> TRUE, maxDistance |-> Px(100), opacity |-> 20],
      mouse       |-> [enabled |-> TRUE, radius |-> Px(100), repulsion |-> 50],
      animation   |-> [fps |-> 60, bounceWalls |-> TRUE, floatEffect |-> TRUE] ]

BREAKPOINTS == [mobile |-> 768, tablet |-> 1024]

-----------------------------------------------------------------------------
(* class Particle *)

\* Math.random() returns RandNums[i] / RandDen, a value of [0, 1)
RandDen == 4
RandNums == {0, 3}

\* Math.random() * range, for random = r / RandDen
RandTimes(r, range) == Quot(r * range, RandDen)

\* (Math.random() - 0.5) * (speed.max - speed.min) + speed.min
RandSpeed(r, cfg) ==
    Quot((2 * r - RandDen) * (cfg.speed.max - cfg.speed.min), 2 * RandDen)
        + cfg.speed.min

\* Particle.reset(): the seven draws of Math.random(), in source order
ParticleReset(cv, cfg, rx, ry, rs, rvx, rvy, rc, ro) ==
    LET sx == RandSpeed(rvx, cfg)
        sy == RandSpeed(rvy, cfg)
    IN  [ x              |-> Num(RandTimes(rx, Px(cv.width))),
          y              |-> Num(RandTimes(ry, Px(cv.height))),
          size           |-> RandTimes(rs, cfg.size.max - cfg.size.min) + cfg.size.min,
          speedX         |-> Num(sx),
          speedY         |-> Num(sy),
          color          |-> RandTimes(rc, cfg.colors),
          opacity        |-> Num(RandTimes(ro, 50) + 30),
          originalSpeedX |-> Num(sx),
          originalSpeedY |-> Num(sy) ]

\* repulsion = mouse.repulsion * force, force = (radius - distance) / radius,
\* in 1/Scale
Repulsion(distance, cfg) ==
    Quot(cfg.mouse.repulsion * (cfg.mouse.radius - distance) * Scale, cfg.mouse.radius)

\* (d / distance) * repulsion * 0.01, in 1/Scale px; 0 / 0 is NaN
RepulsionTerm(d, distance, cfg) ==
    IF ~(IsNum(d) /\ IsNum(distance)) THEN NaN
    ELSE IF distance.v = 0 THEN NaN
    ELSE Num(Quot(d.v * Repulsion(distance.v, cfg), distance.v * 100))

\* speed += (originalSpeed - speed) * 0.02
Relax(speed, original) ==
    IF IsNum(speed) /\ IsNum(original)
    THEN Num(speed.v + Quot((original.v - speed.v) * 2, 100))
    ELSE NaN

\* the mouse block of update(): the new live speed on one axis
MouseSpeed(speed, original, d, distance, mouseX, mouseY, cfg) ==
    IF cfg.mouse.enabled /\ mouseX # Null /\ mouseY # Null
    THEN IF FLt(distance, Num(cfg.mouse.radius))
         THEN FSub(original, RepulsionTerm(d, distance, cfg))
         ELSE Relax(speed, original)
    ELSE speed

\* the wall block of update() on one axis: <<position, speed>>
Walls(pos, speed, limit, cfg) ==
    IF cfg.animation.bounceWalls
    THEN IF FLt(pos, Num(0)) \/ FGt(pos, limit)
         THEN <<FMax(Num(0), FMin(limit, pos)), FNeg(speed)>>
         ELSE <<pos, speed>>
    ELSE LET a == IF FLt(pos, Num(0)) THEN limit ELSE pos
             b == IF FGt(a, limit) THEN Num(0) ELSE a
         IN  <<b, speed>>

\* 0.3 + Math.sin(Date.now() * 0.001 + x * 0.01) * 0.2, the sine being s
FloatOpacity(x, s) == IF IsNum(x) THEN Num(30 + s * 20) ELSE NaN

\* the values Math.sin takes in the model
SinLevels == {-1, 0, 1}

\* Particle.update(mouseX, mouseY)
ParticleUpdate(p, cv, cfg, mouseX, mouseY, s) ==
    LET dx == FSub(mouseX, p.x)
        dy == FSub(mouseY, p.y)
        distance == FHypot(dx, dy)
        sx == MouseSpeed(p.speedX, p.originalSpeedX, dx, distance, mouseX, mouseY, cfg)
        sy == MouseSpeed(p.speedY, p.originalSpeedY, dy, distance, mouseX, mouseY, cfg)
        wx == Walls(FAdd(p.x, sx), sx, Num(Px(cv.width)), cfg)
        wy == Walls(FAdd(p.y, sy), sy, Num(Px(cv.height)), cfg)
    IN  [p EXCEPT !.x = wx[1], !.speedX = wx[2],
                  !.y = wy[1], !.speedY = wy[2],
                  !.opacity = IF cfg.animation.floatEffect
                              THEN FloatOpacity(wx[1], s) ELSE @]

-----------------------------------------------------------------------------
(* SpecParticle: one Particle, constructed on a small canvas and updated   *)
(* with arbitrary pointer arguments                                        *)

\* canvases of the particle runs, in px
ParticleCanvases == {[width |-> 3, height |-> 2]}

\* configurations of the particle runs: both wall policies, a pointer radius
\* that fits the small canvas
ParticleConfigs ==
    { [PARTICLE_CONFIG EXCEPT !.animation.bounceWalls = b, !.mouse.radius = Px(2)] :
        b \in BOOLEAN }

\* pointer arguments of update(): null, or a position on the canvas (1/Scale px)
PointerArgs(cv) ==
    {<<Null, Null>>}
        \cup { <<Num(0), Num(0)>>, <<Num(Px(cv.width) \div 2), Num(Px(cv.height) \div 2)>> }

\* update() runs at most MaxTicks times in a particle run
MaxTicks == 4

\* new Particle(canvas, config)
InitParticle ==
    /\ canvas \in ParticleCanvases
    /\ config \in ParticleConfigs
    /\ \E rx, ry, rs, rvx, rvy, rc, ro \in RandNums :
          particle = ParticleReset(canvas, config, rx, ry, rs, rvx, rvy, rc, ro)
    /\ ticks = 0
    /\ window = [innerWidth |-> canvas.width, innerHeight |-> canvas.height]
    /\ hidden = FALSE
    /\ now = 0
    /\ mounted = FALSE
    /\ particleSystemRef = 0
    /\ visibilityListeners = {}
    /\ systems = << >>
    /\ rafCallbacks = {}
    /\ timers = {}
    /\ resizeRuns = << >>
    /\ FrameIdle
    /\ HooksIdle

\* one call particle.update(mouseX, mouseY)
Update(mouseX, mouseY) ==
    /\ ticks < MaxTicks
    /\ ticks' = ticks + 1
    /\ \E s \in SinLevels :
          particle' = ParticleUpdate(particle, canvas, config, mouseX, mouseY, s)
    /\ UNCHANGED <<canvas, config>>
    /\ UNCHANGED cvars
    /\ UNCHANGED <<fvars, hvars>>

NextParticle ==
    \E m \in PointerArgs(canvas) : Update(m[1], m[2])

SpecParticle == InitParticle /\ [][NextParticle]_vars

-----------------------------------------------------------------------------
(* Claims about one Particle (SpecParticle) *)

\* a coordinate lies on the canvas axis [0, limit px]
OnAxis(pos, limit) == IsNum(pos) /\ 0 <= pos.v /\ pos.v <= Px(limit)

\* C1: after reset and after every update(pointerX, pointerY), for any pointer
\* position or a null pointer and under both wall policies, the particle has
\* 0 <= x <= canvas.width and 0 <= y <= canvas.height.
C1_PositionWithinCanvas ==
    OnAxis(particle.x, canvas.width) /\ OnAxis(particle.y, canvas.height)

\* |live - original| on one axis
Gap(speed, original) == Abs(speed.v - original.v)

\* the live speed is a number away from the cached original speed
Perturbed(speed, original) == IsNum(speed) /\ IsNum(original) /\ speed # original

\* C8: with the pointer inactive (null coordinates), every update tick of a
\* particle whose live velocity is perturbed away from the original velocity
\* strictly decreases |speed - originalSpeed| on that axis.
C8_RelaxesWhenPointerInactive ==
    [][ Update(Null, Null) =>
          /\ Perturbed(particle.speedX, particle.originalSpeedX) =>
                /\ IsNum(particle'.speedX)
                /\ Gap(particle'.speedX, particle'.originalSpeedX)
                     < Gap(particle.speedX, particle.originalSpeedX)
          /\ Perturbed(particle.speedY, particle.originalSpeedY) =>
                /\ IsNum(particle'.speedY)
                /\ Gap(particle'.speedY, particle'.originalSpeedY)
                     < Gap(particle.speedY, particle.originalSpeedY) ]_vars


\* the pointer of update(mouseX, mouseY) is active and nearer than mouse.radius
\* to the particle p
PointerWithinRadius(p, cfg, mouseX, mouseY) ==
    /\ cfg.mouse.enabled
    /\ mouseX # Null
    /\ mouseY # Null
    /\ FLt(FHypot(FSub(mouseX, p.x), FSub(mouseY, p.y)), Num(cfg.mouse.radius))

\* (R - d) / R * repulsion * 0.01 for the distance d, in 1/Scale px
RepulsionMagnitude(d, cfg) == Repulsion(d, cfg) \div 100

\* C12: with the pointer active and at distance d < R of the particle, the
\* velocity the mouse block of update() leaves differs from the original
\* velocity by a vector of length (R - d) / R * repulsion * 0.01 that points
\* away from the pointer (the length up to the rounding of the fixed-point
\* distance: a relative 1 / d, and one unit per operation).
C12_RepulsionMagnitude ==
    [][ \A m \in PointerArgs(canvas) :
          (Update(m[1], m[2]) /\ PointerWithinRadius(particle, config, m[1], m[2])) =>
              LET dx == FSub(m[1], particle.x)
                  dy == FSub(m[2], particle.y)
                  distance == FHypot(dx, dy)
                  sx == MouseSpeed(particle.speedX, particle.originalSpeedX,
                                   dx, distance, m[1], m[2], config)
                  sy == MouseSpeed(particle.speedY, particle.originalSpeedY,
                                   dy, distance, m[1], m[2], config)
                  px == FSub(sx, particle.originalSpeedX)
                  py == FSub(sy, particle.originalSpeedY)
                  expected == RepulsionMagnitude(distance.v, config)
              IN  /\ IsNum(px) /\ IsNum(py)
                  /\ px.v * dx.v <= 0
                  /\ py.v * dy.v <= 0
                  /\ FHypot(px, py).v >= expected - 3
                  /\ FHypot(px, py).v * distance.v
                        <= (expected + 1) * (distance.v + 1) ]_vars

\* a velocity component of the configured speed range
InSpeedRange(speed, cfg) ==
    IsNum(speed) /\ cfg.speed.min <= speed.v /\ speed.v <= cfg.speed.max

\* C21: after Particle.reset(), speedX and speedY each lie within
\* [speed.min, speed.max].
C21_SpeedWithinRange ==
    ticks = 0 =>
        /\ InSpeedRange(particle.speedX, config)
        /\ InSpeedRange(particle.speedY, config)


-----------------------------------------------------------------------------
(* class ParticleSystem.  A system carries the number of its Particle      *)
(* objects (particles); the fields of one Particle are SpecParticle's.     *)
(* The browser state a method touches travels in a record                  *)
(* w = [systems, raf, timers, canvas, runs].                               *)
(* A requestAnimationFrame handle is an opaque positive integer that is    *)
(* only compared for equality and age: between events the pending handles  *)
(* are kept numbered 1..n in the order they were issued.                   *)

\* units of the clock per ms
TimeScale == 3

Ms(n) == n * TimeScale

\* the limit handed to throttle() in setupEventListeners
ThrottleLimit == 250

\* getParticleCount() with <= in place of <
GetParticleCountInclusive(cfg, width) ==
    IF width <= BREAKPOINTS.mobile THEN cfg.count.mobile
    ELSE IF width <= BREAKPOINTS.tablet THEN cfg.count.tablet
    ELSE cfg.count.desktop

\* getParticleCount(), for window.innerWidth = width
GetParticleCount(cfg, width) ==
    IF width < BREAKPOINTS.mobile THEN cfg.count.mobile
    ELSE IF width < BREAKPOINTS.tablet THEN cfg.count.tablet
    ELSE cfg.count.desktop

\* initializeParticles(): particleCount new Particle objects
InitializeParticles(sys, width) ==
    [sys EXCEPT !.particles = GetParticleCount(sys.config, width)]

\* the handlers setupEventListeners() registers
SetupEventListeners(sys) ==
    [sys EXCEPT !.listeners = {"mousemove", "mouseleave", "resize"}]

\* new ParticleSystem(canvas, config); animationId 0 is null
NewParticleSystem(cfg, width) ==
    SetupEventListeners(InitializeParticles(
        [ config      |-> cfg,
          particles   |-> 0,
          animationId |-> 0,
          mouseX      |-> Null,
          mouseY      |-> Null,
          lastTime    |-> 0,
          fpsInterval |-> Quot(Ms(1000), cfg.animation.fps),
          inThrottle  |-> FALSE,
          listeners   |-> {} ], width))

\* the handle requestAnimationFrame returns: newer than every handle in use
NextRafId(w) ==
    LET used == {c.id : c \in w.raf} \cup {c.id : c \in w.frame}
    IN  IF used = {} THEN 1 ELSE (CHOOSE i \in used : \A j \in used : j <= i) + 1

\* the fps gate with >= in place of >
FrameDueAtInterval(sys, currentTime) ==
    currentTime - sys.lastTime >= sys.fpsInterval

\* the fps gate of animate(): elapsed > this.fpsInterval
FrameDue(sys, currentTime) ==
    currentTime - sys.lastTime > sys.fpsInterval

\* animate(currentTime) of system s: the frame request and lastTime
Animate(w, s, currentTime) ==
    LET sys == w.systems[s]
        elapsed == currentTime - sys.lastTime
        lastTime == IF FrameDue(sys, currentTime)
                    THEN currentTime - (elapsed % sys.fpsInterval)
                    ELSE sys.lastTime
        id == NextRafId(w)
    IN  [w EXCEPT !.raf = @ \cup {[id |-> id, sys |-> s]},
                  !.systems[s].animationId = id,
                  !.systems[s].lastTime = lastTime]

\* start()
Start(w, s) == Animate(w, s, 0)

\* stop()
Stop(w, s) ==
    IF w.systems[s].animationId # 0
    THEN [w EXCEPT !.raf = {c \in @ : c.id # w.systems[s].animationId},
                   !.systems[s].animationId = 0]
    ELSE w

\* cleanup()
Cleanup(w, s) ==
    [Stop(w, s) EXCEPT !.systems[s].listeners = {}]

\* handleResize() that resizes the canvas and keeps the particles
HandleResizeKeepParticles(w, s, win) ==
    [w EXCEPT !.canvas = [width |-> win.innerWidth, height |-> win.innerHeight],
              !.runs[s] = Append(@, now)]

\* handleResize()
HandleResize(w, s, win) ==
    [w EXCEPT !.canvas = [width |-> win.innerWidth, height |-> win.innerHeight],
              !.systems[s] = InitializeParticles(@, win.innerWidth),
              !.runs[s] = Append(@, now)]

\* throttle() that never sets inThrottle
ThrottledResizeNoFlag(w, s, win) ==
    [HandleResize(w, s, win) EXCEPT
         !.timers = @ \cup {[sys |-> s, due |-> now + Ms(ThrottleLimit)]}]

\* the function throttle(func, limit) returns, wrapped around handleResize
ThrottledResize(w, s, win) ==
    IF ~w.systems[s].inThrottle
    THEN [HandleResize(w, s, win) EXCEPT
              !.systems[s].inThrottle = TRUE,
              !.timers = @ \cup {[sys |-> s, due |-> now + Ms(ThrottleLimit)]}]
    ELSE w

\* handleMouseMove(event): clientX - rect.left, clientY - rect.top, given in px
HandleMouseMove(sys, x, y) ==
    [sys EXCEPT !.mouseX = Num(Px(x)), !.mouseY = Num(Px(y))]

\* handleMouseLeave()
HandleMouseLeave(sys) == [sys EXCEPT !.mouseX = Null, !.mouseY = Null]

\* the browser state as one record, and back
World ==
    [ systems |-> systems, raf |-> rafCallbacks, frame |-> {},
      timers |-> timers, canvas |-> canvas, runs |-> resizeRuns ]

\* the pending handles renumbered 1..n, oldest first; an animationId whose
\* request is no longer pending becomes StaleId
StaleId == 0 - 1

RenumberHandles(w) ==
    LET ids == {c.id : c \in w.raf}
        Rank(i) == Cardinality({j \in ids : j <= i})
    IN  [w EXCEPT
           !.raf = {[id |-> Rank(c.id), sys |-> c.sys] : c \in w.raf},
           !.systems = [s \in DOMAIN w.systems |->
                          [w.systems[s] EXCEPT !.animationId =
                              IF @ = 0 THEN 0
                              ELSE IF @ \in ids THEN Rank(@) ELSE StaleId]]]

SetWorld(w) ==
    LET n == RenumberHandles(w)
    IN  /\ systems' = n.systems
        /\ rafCallbacks' = n.raf
        /\ timers' = n.timers
        /\ canvas' = n.canvas
        /\ resizeRuns' = n.runs

\* at most MaxPending animation frame callbacks are pending at a time
MaxPending == 2

\* a call of start() is modelled while fewer than MaxPending are pending
MayStart == Cardinality(rafCallbacks) < MaxPending

\* at most MaxSystems ParticleSystem objects are constructed in a run
MaxSystems == 2

-----------------------------------------------------------------------------
(* useParticleSystem and ParticleBackground *)

\* the config props the embedding page passes
ConfigProps ==
    { PARTICLE_CONFIG,
      [count |-> [desktop |-> 30, tablet |-> 20, mobile |-> 10]] }

\* memoizedConfig: { ...PARTICLE_CONFIG, ...config }
MemoizedConfig(prop) ==
    [k \in DOMAIN PARTICLE_CONFIG |->
        IF k \in DOMAIN prop THEN prop[k] ELSE PARTICLE_CONFIG[k]]

\* the effect of useParticleSystem: size the canvas, construct, start
SystemEffect(w, cfg) ==
    LET s == Len(w.systems) + 1
        w1 == [w EXCEPT
                 !.canvas = [width |-> window.innerWidth,
                             height |-> window.innerHeight],
                 !.systems = Append(@, NewParticleSystem(cfg, window.innerWidth)),
                 !.runs = Append(@, << >>)]
    IN  Start(w1, s)

\* the cleanup the effect of useParticleSystem returns
SystemEffectCleanup(w, ref) == IF ref # 0 THEN Cleanup(w, ref) ELSE w

\* handleVisibilityChange, its closure holding particleSystem = h
HandleVisibilityChange(w, h, isHidden) ==
    IF h = 0 THEN w
    ELSE IF isHidden THEN Stop(w, h) ELSE Start(w, h)

\* the viewports of a run: [innerWidth, innerHeight]
Viewports ==
    { [innerWidth |-> 500, innerHeight |-> 800],
      [innerWidth |-> 768, innerHeight |-> 1024],
      [innerWidth |-> 1024, innerHeight |-> 768] }

\* the pointer positions of a run, relative to the canvas, in px
PointerPositions == { <<10, 20>> }

\* the clock advances in steps of TickStep, up to MaxClock steps
TickStep == Ms(125)
MaxClock == 2

Init ==
    /\ particle = << >>
    /\ ticks = 0
    /\ config = PARTICLE_CONFIG
    /\ window = [innerWidth |-> 1024, innerHeight |-> 768]
    \* a canvas element not yet sized by the effect
    /\ canvas = [width |-> 300, height |-> 150]
    /\ hidden = FALSE
    /\ now = 0
    /\ mounted = FALSE
    /\ particleSystemRef = 0
    /\ visibilityListeners = {}
    /\ systems = << >>
    /\ rafCallbacks = {}
    /\ timers = {}
    /\ resizeRuns = << >>
    /\ FrameIdle
    /\ HooksIdle

\* first render of ParticleBackground and its effects
Mount ==
    /\ ~mounted
    /\ Len(systems) < MaxSystems
    /\ MayStart
    /\ \E prop \in ConfigProps :
          /\ config' = MemoizedConfig(prop)
          /\ SetWorld(SystemEffect(World, MemoizedConfig(prop)))
    /\ mounted' = TRUE
    /\ particleSystemRef' = Len(systems) + 1
    \* the render ran before the effect: useParticleSystem returned null
    /\ visibilityListeners' = {0}
    /\ UNCHANGED <<fvars, hvars>>
    /\ UNCHANGED <<particle, ticks, window, hidden, now>>

\* a re-render with the same config prop: only handleVisibilityChange may change
Rerender ==
    /\ mounted
    /\ visibilityListeners' = {particleSystemRef}
    /\ UNCHANGED <<fvars, hvars>>
    /\ UNCHANGED <<particle, canvas, config, ticks, window, hidden, now, mounted,
                   particleSystemRef, systems, rafCallbacks, timers,
                   resizeRuns>>

\* a re-render with a new config prop: the system effect is torn down and re-run
RerenderConfig ==
    /\ mounted
    /\ Len(systems) < MaxSystems
    /\ MayStart
    /\ \E prop \in ConfigProps :
          /\ config' = MemoizedConfig(prop)
          /\ SetWorld(SystemEffect(SystemEffectCleanup(World, particleSystemRef),
                                   MemoizedConfig(prop)))
    /\ particleSystemRef' = Len(systems) + 1
    \* the render returned the ref's value from before the effects
    /\ visibilityListeners' = {particleSystemRef}
    /\ UNCHANGED <<fvars, hvars>>
    /\ UNCHANGED <<particle, ticks, window, hidden, now, mounted>>

\* unmount: both effect cleanups
Unmount ==
    /\ mounted
    /\ SetWorld(SystemEffectCleanup(World, particleSystemRef))
    /\ particleSystemRef' = 0
    /\ visibilityListeners' = {}
    /\ mounted' = FALSE
    /\ UNCHANGED <<fvars, hvars>>
    /\ UNCHANGED <<particle, config, ticks, window, hidden, now>>

\* handlers of listeners, in a fixed order
RECURSIVE VisibilityHandlers(_, _, _)
VisibilityHandlers(w, hs, isHidden) ==
    IF hs = {} THEN w
    ELSE LET h == CHOOSE x \in hs : \A y \in hs : x <= y
         IN  VisibilityHandlers(HandleVisibilityChange(w, h, isHidden),
                                hs \ {h}, isHidden)

\* a visibilitychange event on document
VisibilityChange ==
    /\ hidden' = ~hidden
    /\ hidden => MayStart
    /\ SetWorld(VisibilityHandlers(World, visibilityListeners, ~hidden))
    /\ UNCHANGED <<fvars, hvars>>
    /\ UNCHANGED <<particle, config, ticks, window, now, mounted,
                   particleSystemRef, visibilityListeners>>

\* the systems whose handler for an event is registered
Listening(event) ==
    {s \in 1..Len(systems) : event \in systems[s].listeners}

RECURSIVE ResizeHandlers(_, _, _)
ResizeHandlers(w, ss, win) ==
    IF ss = {} THEN w
    ELSE LET s == CHOOSE x \in ss : \A y \in ss : x <= y
         IN  ResizeHandlers(ThrottledResize(w, s, win), ss \ {s}, win)

\* the window is resized: a resize event on window
Resize(win) ==
    /\ win # window
    /\ window' = win
    /\ SetWorld(ResizeHandlers(World, Listening("resize"), win))
    /\ UNCHANGED <<fvars, hvars>>
    /\ UNCHANGED <<particle, config, ticks, hidden, now, mounted,
                   particleSystemRef, visibilityListeners>>

\* a mousemove event on the canvas
MouseMove(x, y) ==
    /\ Listening("mousemove") # {}
    /\ systems' = [s \in 1..Len(systems) |->
                     IF "mousemove" \in systems[s].listeners
                     THEN HandleMouseMove(systems[s], x, y) ELSE systems[s]]
    /\ systems' # systems
    /\ UNCHANGED <<fvars, hvars>>
    /\ UNCHANGED <<particle, canvas, config, ticks, window, hidden, now, mounted,
                   particleSystemRef, visibilityListeners, rafCallbacks,
                   timers, resizeRuns>>

\* a mouseleave event on the canvas
MouseLeave ==
    /\ Listening("mouseleave") # {}
    /\ systems' = [s \in 1..Len(systems) |->
                     IF "mouseleave" \in systems[s].listeners
                     THEN HandleMouseLeave(systems[s]) ELSE systems[s]]
    /\ systems' # systems
    /\ UNCHANGED <<fvars, hvars>>
    /\ UNCHANGED <<particle, canvas, config, ticks, window, hidden, now, mounted,
                   particleSystemRef, visibilityListeners, rafCallbacks,
                   timers, resizeRuns>>

\* the callbacks of one animation frame, oldest handle first
RECURSIVE RunCallbacks(_, _, _)
RunCallbacks(w, cs, t) ==
    IF cs = {} THEN w
    ELSE LET c == CHOOSE x \in cs : \A y \in cs : x.id <= y.id
             w1 == IF c \in w.raf
                   THEN Animate([w EXCEPT !.raf = @ \ {c}], c.sys, t)
                   ELSE w
         IN  RunCallbacks(w1, cs \ {c}, t)

\* one animation frame: the callbacks pending when it begins
RunFrame(w, t) == RunCallbacks([w EXCEPT !.frame = w.raf], w.raf, t)

\* the browser runs the pending animation frame callbacks (page visible)
AnimationFrame ==
    /\ ~hidden
    /\ rafCallbacks # {}
    /\ SetWorld(RunFrame(World, now))
    /\ UNCHANGED <<fvars, hvars>>
    /\ UNCHANGED <<particle, config, ticks, window, hidden, now, mounted,
                   particleSystemRef, visibilityListeners>>

\* a throttle timeout fires: inThrottle = false
TimerFire(t) ==
    /\ t \in timers
    /\ now >= t.due
    /\ timers' = timers \ {t}
    /\ systems' = [systems EXCEPT ![t.sys].inThrottle = FALSE]
    /\ UNCHANGED <<fvars, hvars>>
    /\ UNCHANGED <<particle, canvas, config, ticks, window, hidden, now, mounted,
                   particleSystemRef, visibilityListeners, rafCallbacks,
                   resizeRuns>>

\* time passes
Tick ==
    /\ now < MaxClock * TickStep
    /\ now' = now + TickStep
    /\ UNCHANGED <<fvars, hvars>>
    /\ UNCHANGED <<particle, canvas, config, ticks, window, hidden, mounted,
                   particleSystemRef, visibilityListeners, systems, rafCallbacks,
                   timers, resizeRuns>>

Next ==
    \/ Mount
    \/ Rerender
    \/ RerenderConfig
    \/ Unmount
    \/ VisibilityChange
    \/ \E p \in PointerPositions : MouseMove(p[1], p[2])
    \/ MouseLeave
    \/ AnimationFrame
    \/ Tick

Spec == Init /\ [][Next]_vars

NextResize ==
    \/ Mount
    \/ RerenderConfig
    \/ Unmount
    \/ \E win \in Viewports : Resize(win)
    \/ \E t \in timers : TimerFire(t)
    \/ Tick

SpecResize == Init /\ [][NextResize]_vars

-----------------------------------------------------------------------------
(* Claims about the frame loop (Spec) *)

SystemIds == 1..Len(systems)

\* cleanup() has run on system s: the constructor registers three handlers
\* and only cleanup() removes them
CleanedUp(s) == systems[s].listeners = {}

\* the pending animation frame callbacks of system s
Pending(s) == {c \in rafCallbacks : c.sys = s}

\* C2: once cleanup() has been called on a ParticleSystem it has no pending
\* animation-frame request and holds no frame handle, whatever events follow.
C2_NoFrameAfterCleanup ==
    \A s \in SystemIds :
        CleanedUp(s) => Pending(s) = {} /\ systems[s].animationId = 0

\* C3: right after cleanup() has run on a system, a second cleanup() changes
\* nothing, and the system has zero pending frame callbacks and zero
\* registered listeners.
C3_CleanupIdempotent ==
    [][ \A s \in SystemIds :
          (~CleanedUp(s) /\ CleanedUp(s)') =>
              /\ Cleanup(World, s)' = World'
              /\ Pending(s)' = {}
              /\ systems'[s].listeners = {} ]_vars

\* C4: while the component is mounted and its particle system is running, a
\* visibilitychange to hidden leaves the system with no pending frame request,
\* and a visibilitychange back to visible leaves it with a pending frame
\* request.
C4_VisibilityStopsAndRestarts ==
    [][ /\ (mounted /\ Pending(particleSystemRef) # {} /\ ~hidden /\ hidden')
              => Pending(particleSystemRef)' = {}
        /\ (mounted /\ hidden /\ ~hidden') => Pending(particleSystemRef)' # {}
      ]_vars

\* C5: whatever hidden/visible toggles came before, exactly one frame loop of
\* the mounted component's particle system is active while the page is visible.
C5_OneLoopWhileVisible ==
    (mounted /\ ~hidden) => Cardinality(Pending(particleSystemRef)) = 1

\* C28: a ParticleSystem never has more than one animation-frame request
\* pending, whatever start(), stop(), frame callbacks and visibility changes
\* came before.
C28_AtMostOnePending ==
    \A s \in SystemIds : Cardinality(Pending(s)) <= 1

\* the systems cleanup() has not run on
Live == {s \in SystemIds : ~CleanedUp(s)}

\* C15: a ParticleBackground owns at most one live ParticleSystem at a time,
\* the one in particleSystemRef while it is mounted, and once it is unmounted
\* no ParticleSystem it created has a listener attached or a frame request
\* pending.
C15_OneSystemPerMount ==
    /\ Cardinality(Live) <= 1
    /\ mounted => Live = {particleSystemRef}
    /\ ~mounted =>
          \A s \in SystemIds : systems[s].listeners = {} /\ Pending(s) = {}

-----------------------------------------------------------------------------
(* Claims about resize handling (SpecResize) *)

\* the tier count for a viewport width: mobile below 768, tablet from 768
\* and below 1024, desktop from 1024
TierCount(cfg, width) ==
    CASE width < 768 -> cfg.count.mobile
      [] width >= 768 /\ width < 1024 -> cfg.count.tablet
      [] width >= 1024 -> cfg.count.desktop

\* C6: in every state a live ParticleSystem holds the tier count of the
\* current viewport width.
C6_CountFollowsViewport ==
    \A s \in SystemIds :
        ~CleanedUp(s) =>
            systems[s].particles = TierCount(systems[s].config, window.innerWidth)

\* C6 as amended: in every state a live ParticleSystem holds the tier count of
\* the canvas width, the viewport width at its construction or at the last
\* resize event its throttle let through.
C6_CountFollowsCanvas ==
    \A s \in SystemIds :
        ~CleanedUp(s) =>
            systems[s].particles = TierCount(systems[s].config, canvas.width)

\* C6 witness: the throttle dropped a resize event into another tier
C6_Witness ==
    \E s \in SystemIds :
        /\ ~CleanedUp(s)
        /\ resizeRuns[s] # << >>
        /\ systems[s].inThrottle
        /\ systems[s].particles = TierCount(systems[s].config, canvas.width)
        /\ systems[s].particles # TierCount(systems[s].config, window.innerWidth)

\* C7: right after construction or handleResize the particle count is the
\* tier count of the viewport width at that moment.
C7_CountAfterInitialization ==
    [][ \A s \in 1..Len(systems') :
          (s > Len(systems) \/ Len(resizeRuns'[s]) > Len(resizeRuns[s])) =>
              systems'[s].particles
                  = TierCount(systems'[s].config, window'.innerWidth) ]_vars

\* C7 witness: handleResize has run for a width on a breakpoint
C7_Witness ==
    \E s \in SystemIds :
        /\ resizeRuns[s] # << >>
        /\ canvas.width = window.innerWidth
        /\ window.innerWidth \in {768, 1024}
        /\ systems[s].particles = TierCount(systems[s].config, window.innerWidth)

\* C9: any two runs of handleResize on one system are at least 250 ms apart,
\* so a burst of resize events within 250 ms reinitializes at most once.
C9_ResizeThrottled ==
    \A s \in SystemIds :
        \A i, j \in 1..Len(resizeRuns[s]) :
            i < j => resizeRuns[s][j] - resizeRuns[s][i] >= Ms(250)

\* C9 witness: a resize event was dropped inside the window of a handled one,
\* and a second one was handled after the timeout
C9_Witness ==
    \E s \in SystemIds :
        /\ Len(resizeRuns[s]) = 2
        /\ systems[s].inThrottle
        /\ canvas.width # window.innerWidth

\* C29: once a system that has handled a resize is out of its throttle
\* window, with no timeout of its throttle pending, the canvas has the
\* width and height of the viewport and the particles were created for that
\* width: the last resize event of a burst was not lost.
C29_LastResizeApplied ==
    \A s \in SystemIds :
        ( /\ ~CleanedUp(s)
          /\ resizeRuns[s] # << >>
          /\ ~systems[s].inThrottle
          /\ ~\E t \in timers : t.sys = s )
        => /\ canvas.width = window.innerWidth
           /\ canvas.height = window.innerHeight
           /\ systems[s].particles = GetParticleCount(systems[s].config,
                                                      window.innerWidth)

\* C10: after cleanup() no timer created by the system is still pending.
C10_NoTimerAfterCleanup ==
    \A s \in SystemIds :
        CleanedUp(s) => ~\E t \in timers : t.sys = s

-----------------------------------------------------------------------------
(* The work of one frame: clearCanvas(), updateParticles(),                *)
(* drawConnections(), drawParticles().  SpecFrame follows one              *)
(* ParticleSystem with its Particle objects from its construction on: the  *)
(* call of start(), the animation frame callbacks at the times of a fine   *)
(* clock, and pointer events.  steps lists what the last call of animate() *)
(* did: the canvas calls with their arguments and the particle updates.    *)

\* particle.update(this.mouseX, this.mouseY) for every particle, in order
UpdateParticles(ps, cv, cfg, mouseX, mouseY) ==
    [k \in 1..Len(ps) |-> ParticleUpdate(ps[k], cv, cfg, mouseX, mouseY, 0)]

\* the calls of update() updateParticles() makes
UpdateSteps(ps, mouseX, mouseY) ==
    [k \in 1..Len(ps) |->
        [op |-> "update", i |-> k, mouseX |-> mouseX, mouseY |-> mouseY]]

\* alpha * opacity of a connection, in 1/(100 * maxDistance)
LineAlpha(distance, cfg) ==
    cfg.connections.opacity * (cfg.connections.maxDistance - distance.v)

\* the distance of particles i and j in drawConnections()
PairDistance(ps, i, j) ==
    FHypot(FSub(ps[i].x, ps[j].x), FSub(ps[i].y, ps[j].y))

\* one stroke of drawConnections(): moveTo particle i, lineTo particle j
Line(ps, cfg, i, j) ==
    [ op    |-> "stroke", i |-> i, j |-> j,
      from  |-> <<ps[i].x, ps[i].y>>,
      to    |-> <<ps[j].x, ps[j].y>>,
      alpha |-> LineAlpha(PairDistance(ps, i, j), cfg) ]

\* the loops of drawConnections() with distance <= maxDistance
RECURSIVE ConnectionsInclusiveFrom(_, _, _, _)
ConnectionsInclusiveFrom(ps, cfg, i, j) ==
    IF i > Len(ps) THEN << >>
    ELSE IF j > Len(ps) THEN ConnectionsInclusiveFrom(ps, cfg, i + 1, i + 2)
    ELSE LET distance == PairDistance(ps, i, j)
         IN  (IF IsNum(distance) /\ distance.v <= cfg.connections.maxDistance
              THEN <<Line(ps, cfg, i, j)>> ELSE << >>)
                 \o ConnectionsInclusiveFrom(ps, cfg, i, j + 1)

\* drawConnections() that also connects a pair at exactly maxDistance
DrawConnectionsInclusive(ps, cfg) ==
    IF ~cfg.connections.enabled THEN << >>
    ELSE ConnectionsInclusiveFrom(ps, cfg, 1, 2)

\* the loops of drawConnections(), from the pair (i, j) on
RECURSIVE ConnectionsFrom(_, _, _, _)
ConnectionsFrom(ps, cfg, i, j) ==
    IF i > Len(ps) THEN << >>
    ELSE IF j > Len(ps) THEN ConnectionsFrom(ps, cfg, i + 1, i + 2)
    ELSE LET distance == PairDistance(ps, i, j)
         IN  (IF FLt(distance, Num(cfg.connections.maxDistance))
              THEN <<Line(ps, cfg, i, j)>> ELSE << >>)
                 \o ConnectionsFrom(ps, cfg, i, j + 1)

\* drawConnections(): the strokes, in order
DrawConnections(ps, cfg) ==
    IF ~cfg.connections.enabled THEN << >>
    ELSE ConnectionsFrom(ps, cfg, 1, 2)

\* drawParticles(): particle.draw(ctx) for every particle, in order
DrawParticles(ps) ==
    [k \in 1..Len(ps) |->
        [op |-> "arc", i |-> k, x |-> ps[k].x, y |-> ps[k].y, size |-> ps[k].size]]

\* clearCanvas()
ClearCanvas(cv) == <<[op |-> "clearRect", width |-> cv.width, height |-> cv.height]>>

\* the frame work with drawConnections() ahead of updateParticles()
ProcessFrameConnectFirst(sys, ps, cv, hasCtx) ==
    IF ~hasCtx
    THEN [particles |-> ps, steps |-> << >>, thrown |-> TRUE]
    ELSE LET ups == UpdateParticles(ps, cv, sys.config, sys.mouseX, sys.mouseY)
         IN  [ particles |-> ups,
               steps     |-> ClearCanvas(cv)
                                \o DrawConnections(ps, sys.config)
                                \o UpdateSteps(ps, sys.mouseX, sys.mouseY)
                                \o DrawParticles(ups),
               thrown    |-> FALSE ]

\* the frame work of animate() behind the fps gate; this.ctx.clearRect with
\* this.ctx null throws a TypeError that ends the call
ProcessFrame(sys, ps, cv, hasCtx) ==
    IF ~hasCtx
    THEN [particles |-> ps, steps |-> << >>, thrown |-> TRUE]
    ELSE LET ups == UpdateParticles(ps, cv, sys.config, sys.mouseX, sys.mouseY)
         IN  [ particles |-> ups,
               steps     |-> ClearCanvas(cv)
                                \o UpdateSteps(ps, sys.mouseX, sys.mouseY)
                                \o DrawConnections(ups, sys.config)
                                \o DrawParticles(ups),
               thrown    |-> FALSE ]

\* animate(currentTime): what it does to the particles and the canvas
AnimateBody(sys, ps, cv, hasCtx, currentTime) ==
    IF FrameDue(sys, currentTime)
    THEN ProcessFrame(sys, ps, cv, hasCtx)
    ELSE [particles |-> ps, steps |-> << >>, thrown |-> FALSE]

\* the configurations of the frame runs: few particles on a small canvas,
\* 50 frames per second, and a maxDistance of 2.45 px, which is the distance
\* of two of the particles after their first update
FrameConfigs ==
    { [PARTICLE_CONFIG EXCEPT
          !.count = [desktop |-> 3, tablet |-> 3, mobile |-> 3],
          !.connections.enabled = e,
          !.connections.maxDistance = Px(49) \div 20,
          !.mouse.radius = Px(2),
          !.animation.fps = 50,
          !.animation.floatEffect = FALSE] : e \in BOOLEAN }

\* the draws of Math.random() in reset() of the frame runs: x, y, size,
\* speedX, speedY, color, opacity
FrameDraws == { <<0, 0, 0, 0, 0, 0, 0>>, <<3, 0, 0, 3, 0, 0, 0>>,
                <<3, 3, 0, 3, 3, 0, 0>> }

\* new Particle(canvas, config) with the draws d
NewParticle(cv, cfg, d) ==
    ParticleReset(cv, cfg, d[1], d[2], d[3], d[4], d[5], d[6], d[7])

\* the pointer positions of the frame runs, in px
FramePointers == { <<0, 0>>, <<1, 1>> }

\* the frame clock advances in steps of FrameStep, up to MaxFrameClock steps
FrameStep == Ms(10)
MaxFrameClock == 5

\* the state in the effect of useParticleSystem after
\* new ParticleSystem(canvas, config), before start()
InitFrame ==
    /\ particle = << >>
    /\ ticks = 0
    /\ canvas = [width |-> 3, height |-> 2]
    /\ window = [innerWidth |-> 3, innerHeight |-> 2]
    /\ config \in FrameConfigs
    /\ hidden = FALSE
    /\ now = 0
    /\ mounted = TRUE
    /\ particleSystemRef = 1
    /\ visibilityListeners = {}
    /\ systems = <<NewParticleSystem(config, window.innerWidth)>>
    /\ rafCallbacks = {}
    /\ timers = {}
    /\ resizeRuns = << << >> >>
    /\ particles \in [1..systems[1].particles ->
                         {NewParticle(canvas, config, d) : d \in FrameDraws}]
    \* canvas.getContext('2d') returned a context, or null
    /\ ctx \in BOOLEAN
    /\ steps = << >>
    /\ thrown = FALSE
    /\ animateTime = NoTime
    /\ HooksIdle

\* particleSystemRef.current.start()
FrameStart ==
    /\ systems[1].animationId = 0
    /\ SetWorld(Start(World, 1))
    /\ LET f == AnimateBody(systems[1], particles, canvas, ctx, 0)
       IN  /\ particles' = f.particles
           /\ steps' = f.steps
           /\ thrown' = f.thrown
    /\ animateTime' = 0
    /\ UNCHANGED <<particle, config, ticks, window, hidden, now, mounted,
                   particleSystemRef, visibilityListeners, ctx>>
    /\ UNCHANGED hvars

\* the browser runs the pending animation frame callback with the time now
FrameCallback ==
    /\ \E c \in rafCallbacks :
          SetWorld(Animate([World EXCEPT !.raf = @ \ {c}], c.sys, now))
    /\ LET f == AnimateBody(systems[1], particles, canvas, ctx, now)
       IN  /\ particles' = f.particles
           /\ steps' = f.steps
           /\ thrown' = f.thrown
    /\ animateTime' = now
    /\ UNCHANGED <<particle, config, ticks, window, hidden, now, mounted,
                   particleSystemRef, visibilityListeners, ctx>>
    /\ UNCHANGED hvars

\* time passes on the frame clock
FrameTick ==
    /\ now < MaxFrameClock * FrameStep
    /\ now' = now + FrameStep
    /\ UNCHANGED <<particle, canvas, config, ticks, window, hidden, mounted,
                   particleSystemRef, visibilityListeners, systems, rafCallbacks,
                   timers, resizeRuns>>
    /\ UNCHANGED <<fvars, hvars>>

NextFrame ==
    \/ FrameStart
    \/ FrameCallback
    \/ FrameTick
    \/ \E p \in FramePointers : MouseMove(p[1], p[2])
    \/ MouseLeave

SpecFrame == InitFrame /\ [][NextFrame]_vars

-----------------------------------------------------------------------------
(* Claims about the frame work (SpecFrame) *)

\* C11: when canvas.getContext('2d') returned null, neither the constructor,
\* start() nor any later frame callback throws, and no clear, update or draw
\* is attempted.
C11_NoContextNoThrow ==
    ~ctx => (~thrown /\ steps = << >>)

\* the strokes of the last frame that connect particles i and j
StrokesOf(i, j) ==
    {k \in 1..Len(steps) :
        steps[k].op = "stroke" /\ steps[k].i = i /\ steps[k].j = j}

\* the strokes of the last frame
Strokes == {k \in 1..Len(steps) : steps[k].op = "stroke"}

\* the distance of the two particles stroke k connects
StrokeDistance(k) == PairDistance(particles, steps[k].i, steps[k].j)

\* C13: in a processed frame, a pair of particles at a distance >= maxDistance
\* gets no line, a pair at a distance < maxDistance gets exactly one line, of
\* opacity connections.opacity * (maxDistance - distance) / maxDistance (here
\* times 100 * maxDistance), which is the configured opacity at distance 0 and
\* strictly smaller for a larger distance; no pair is drawn in both orders,
\* and with connections.enabled false there is no line at all.
C13_Connections ==
    LET maxDistance == config.connections.maxDistance
        opacity == config.connections.opacity
    IN  steps # << >> =>
          /\ ~config.connections.enabled => Strokes = {}
          /\ \A k \in Strokes :
                steps[k].i < steps[k].j /\ steps[k].j <= Len(particles)
          /\ config.connections.enabled =>
                \A i, j \in 1..Len(particles) :
                    i < j =>
                        LET d == PairDistance(particles, i, j)
                        IN  /\ (IsNum(d) /\ d.v >= maxDistance) => StrokesOf(i, j) = {}
                            /\ (IsNum(d) /\ d.v < maxDistance) =>
                                  /\ Cardinality(StrokesOf(i, j)) = 1
                                  /\ \A k \in StrokesOf(i, j) :
                                        /\ steps[k].alpha = opacity * (maxDistance - d.v)
                                        /\ steps[k].from = <<particles[i].x, particles[i].y>>
                                        /\ steps[k].to = <<particles[j].x, particles[j].y>>
                                        /\ d.v = 0 => steps[k].alpha = opacity * maxDistance
          /\ \A k, l \in Strokes :
                StrokeDistance(k).v < StrokeDistance(l).v
                    => steps[k].alpha > steps[l].alpha

\* C13 witness: a processed frame drew a line for a pair nearer than
\* maxDistance, fainter than the configured opacity, and none for a pair at
\* exactly maxDistance
C13_Witness ==
    /\ steps # << >>
    /\ config.connections.enabled
    /\ \E l \in Strokes :
          /\ StrokeDistance(l).v > 0
          /\ steps[l].alpha
                < config.connections.opacity * config.connections.maxDistance
    /\ \E i, j \in 1..Len(particles) :
          /\ i < j
          /\ PairDistance(particles, i, j) = Num(config.connections.maxDistance)
          /\ StrokesOf(i, j) = {}

\* C19: the steps of a processed frame are, in this order: clearRect, one
\* update per particle in collection order and all with the same pointer
\* coordinates, the strokes of the connections, one arc per particle in
\* collection order; every stroke and arc is drawn at the coordinates the
\* particles have after the updates.
C19_FrameOrder ==
    LET n == Len(particles)
        s == Cardinality(Strokes)
    IN  steps # << >> =>
          /\ Len(steps) = 1 + n + s + n
          /\ steps[1].op = "clearRect"
          /\ \A k \in 1..n :
                /\ steps[1 + k].op = "update"
                /\ steps[1 + k].i = k
                /\ steps[1 + k].mouseX = steps[2].mouseX
                /\ steps[1 + k].mouseY = steps[2].mouseY
          /\ \A k \in 1..s :
                /\ steps[1 + n + k].op = "stroke"
                /\ steps[1 + n + k].from = <<particles[steps[1 + n + k].i].x,
                                             particles[steps[1 + n + k].i].y>>
                /\ steps[1 + n + k].to = <<particles[steps[1 + n + k].j].x,
                                           particles[steps[1 + n + k].j].y>>
          /\ \A k \in 1..n :
                /\ steps[1 + n + s + k].op = "arc"
                /\ steps[1 + n + s + k].i = k
                /\ steps[1 + n + s + k].x = particles[k].x
                /\ steps[1 + n + s + k].y = particles[k].y

\* C19 witness: a processed frame updated three particles under an active
\* pointer, drew a connection and drew the particles
C19_Witness ==
    /\ Len(particles) = 3
    /\ Strokes # {}
    /\ \E k \in 1..Len(steps) : steps[k].op = "update" /\ steps[k].mouseX # Null
    /\ \E k \in 1..Len(steps) : steps[k].op = "arc" /\ steps[k].i = 3

\* the call of animate() a step makes skipped the frame work
Skipped == steps' = << >> /\ ~thrown'

\* what C20 says of a call animate(t), skipped being decided by gate
FrameGate(t, gate) ==
    LET sys == systems[1]
    IN  /\ Cardinality(rafCallbacks') = 1
        /\ \E c \in rafCallbacks' : c.id = systems'[1].animationId
        /\ Skipped <=> gate
        /\ Skipped => (systems'[1].lastTime = sys.lastTime /\ particles' = particles)
        /\ ~Skipped =>
              /\ 0 <= t - systems'[1].lastTime
              /\ t - systems'[1].lastTime < sys.fpsInterval

\* C20: every call of animate() leaves exactly one frame request; it skips the
\* frame work if and only if the time since lastTime is below the frame
\* interval; a skipped call leaves lastTime and the particles as they were;
\* after a processed call at t, 0 <= t - lastTime < frame interval.
C20_SkipsBelowInterval ==
    [][ /\ FrameStart =>
              FrameGate(0, 0 - systems[1].lastTime < systems[1].fpsInterval)
        /\ FrameCallback =>
              FrameGate(now, now - systems[1].lastTime < systems[1].fpsInterval)
      ]_vars

\* C20 as amended: the frame work is skipped if and only if the time since
\* lastTime is not above the frame interval (a call at exactly the interval
\* is skipped too).
C20_SkipsUpToInterval ==
    [][ /\ FrameStart =>
              FrameGate(0, 0 - systems[1].lastTime <= systems[1].fpsInterval)
        /\ FrameCallback =>
              FrameGate(now, now - systems[1].lastTime <= systems[1].fpsInterval)
      ]_vars

\* C20 witness: the last call of animate() came exactly one frame interval
\* after lastTime and was skipped
C20_Witness ==
    /\ animateTime # NoTime
    /\ animateTime - systems[1].lastTime = systems[1].fpsInterval
    /\ steps = << >>
    /\ ~thrown
    /\ Cardinality(rafCallbacks) = 1

-----------------------------------------------------------------------------
(* The config prop of ParticleBackground.  SpecConfig draws the prop the   *)
(* embedding page passes from the partial configurations and renders the   *)
(* component once: memoizedConfig is the effective configuration.          *)

\* values the embedding page sets in place of the defaults
Overrides ==
    [ count     |-> [desktop |-> 30, tablet |-> 20, mobile |-> 10],
      mouse     |-> [enabled |-> FALSE, radius |-> Px(50), repulsion |-> 10],
      animation |-> [fps |-> 30, bounceWalls |-> FALSE, floatEffect |-> FALSE] ]

\* the objects that set some fields of group g
PartialGroups(g) ==
    { [f \in fs |-> Overrides[g][f]] : fs \in SUBSET DOMAIN Overrides[g] }

\* the config props that override some fields of some groups
PartialConfigs ==
    UNION { { c \in [gs -> UNION {PartialGroups(g) : g \in gs}] :
                \A g \in gs : c[g] \in PartialGroups(g) }
            : gs \in SUBSET DOMAIN Overrides }

\* the state before the first render of <ParticleBackground config={props} />
InitConfig ==
    /\ particle = << >>
    /\ ticks = 0
    /\ config = PARTICLE_CONFIG
    /\ window = [innerWidth |-> 1024, innerHeight |-> 768]
    /\ canvas = [width |-> 300, height |-> 150]
    /\ hidden = FALSE
    /\ now = 0
    /\ mounted = FALSE
    /\ particleSystemRef = 0
    /\ visibilityListeners = {}
    /\ systems = << >>
    /\ rafCallbacks = {}
    /\ timers = {}
    /\ resizeRuns = << >>
    /\ FrameIdle
    /\ ExtraIdle
    /\ TypingIdle
    /\ ScrollIdle
    /\ NavIdle
    /\ props \in PartialConfigs

\* the first render, up to useMemo: config is memoizedConfig
RenderConfig ==
    /\ ~mounted
    /\ mounted' = TRUE
    /\ config' = MemoizedConfig(props)
    /\ UNCHANGED <<particle, canvas, ticks, window, hidden, now,
                   particleSystemRef, visibilityListeners, systems, rafCallbacks,
                   timers, resizeRuns>>
    /\ UNCHANGED <<fvars, hvars>>

NextConfig == RenderConfig

SpecConfig == InitConfig /\ [][NextConfig]_vars

\* the groups of PARTICLE_CONFIG that are objects of fields
Groups == DOMAIN PARTICLE_CONFIG \ {"colors"}

\* the prop sets field f of group g
Overridden(g, f) == g \in DOMAIN props /\ f \in DOMAIN props[g]

\* C14: in the effective configuration every field the prop did not override
\* has its default value, also when the prop overrides other fields of the
\* same group.
C14_UnsetFieldsKeepDefaults ==
    mounted =>
        /\ "colors" \notin DOMAIN props => config.colors = PARTICLE_CONFIG.colors
        /\ \A g \in Groups :
              \A f \in DOMAIN PARTICLE_CONFIG[g] :
                  ~Overridden(g, f) =>
                      /\ f \in DOMAIN config[g]
                      /\ config[g][f] = PARTICLE_CONFIG[g][f]

-----------------------------------------------------------------------------
(* The other hooks and services of the page run beside the particle        *)
(* background, each in a specification of its own.                         *)

\* no ParticleBackground is followed: the state before its mount
BackgroundIdle ==
    /\ particle = << >>
    /\ ticks = 0
    /\ config = PARTICLE_CONFIG
    /\ window = [innerWidth |-> 1024, innerHeight |-> 768]
    /\ canvas = [width |-> 300, height |-> 150]
    /\ hidden = FALSE
    /\ now = 0
    /\ mounted = FALSE
    /\ particleSystemRef = 0
    /\ visibilityListeners = {}
    /\ systems = << >>
    /\ rafCallbacks = {}
    /\ timers = {}
    /\ resizeRuns = << >>

-----------------------------------------------------------------------------
(* useTypingAnimation(texts, options).  A state change re-renders the      *)
(* component; when a dependency of the effect changed, its cleanup clears  *)
(* the pending timeout and the effect sets the next one.                   *)

\* the texts arguments of the typing runs
TypingTexts ==
    { << >>, << <<"a">> >>, << <<"a", "b">>, <<"c">> >>,
      << <<"a", "b", "c">>, <<"a", "d">>, <<"e">> >>,
      << << >>, <<"a", "b">>, <<"c">> >> }

\* the timeout the effect sets when it runs
EffectTimer(ts, started) ==
    IF Len(ts) = 0 THEN "none"
    ELSE IF ~started THEN "setIsStarted"
    ELSE "handleTyping"

\* moveToNextText() that stops at the last text whatever loop is
MoveToNextTextNoLoop(prevIndex, ts, lp) ==
    IF prevIndex + 1 < Len(ts) - 1 THEN prevIndex + 1 ELSE Len(ts) - 1

\* moveToNextText() that wraps whatever loop is
MoveToNextTextAlwaysWraps(prevIndex, ts, lp) ==
    (prevIndex + 1) % Len(ts)

\* moveToNextText(): the next value of currentTextIndex
MoveToNextText(prevIndex, ts, lp) ==
    IF lp THEN (prevIndex + 1) % Len(ts)
    ELSE IF prevIndex + 1 < Len(ts) - 1 THEN prevIndex + 1 ELSE Len(ts) - 1

\* the first render of a component that calls useTypingAnimation, and its effect
InitTyping ==
    /\ BackgroundIdle
    /\ FrameIdle
    /\ ExtraIdle
    /\ ConfigIdle
    /\ ScrollIdle
    /\ NavIdle
    /\ texts \in TypingTexts
    /\ loop \in BOOLEAN
    /\ currentTextIndex = 0
    /\ currentText = << >>
    /\ isTyping = TRUE
    /\ isStarted = FALSE
    /\ isPaused = FALSE
    /\ typingTimer = EffectTimer(texts, FALSE)

\* the start delay is over: setIsStarted(true)
StartTimeout ==
    /\ typingTimer = "setIsStarted"
    /\ isStarted' = TRUE
    /\ typingTimer' = EffectTimer(texts, TRUE)
    /\ UNCHANGED <<texts, loop, currentTextIndex, currentText, isTyping, isPaused>>
    /\ UNCHANGED <<bvars, fvars, props, svars, nvars, xvars>>

\* a timeout runs handleTyping()
HandleTyping ==
    /\ typingTimer = "handleTyping"
    /\ LET currentFullText == texts[currentTextIndex + 1]
       IN  IF isTyping
           THEN IF Len(currentText) < Len(currentFullText)
                THEN /\ currentText' = SubSeq(currentFullText, 1, Len(currentText) + 1)
                     /\ typingTimer' = EffectTimer(texts, isStarted)
                     /\ UNCHANGED <<currentTextIndex, isTyping>>
                ELSE /\ typingTimer' = "setIsTyping"
                     /\ UNCHANGED <<currentTextIndex, currentText, isTyping>>
           ELSE IF Len(currentText) > 0
                THEN /\ currentText' = SubSeq(currentText, 1, Len(currentText) - 1)
                     /\ typingTimer' = EffectTimer(texts, isStarted)
                     /\ UNCHANGED <<currentTextIndex, isTyping>>
                ELSE /\ currentTextIndex' = MoveToNextText(currentTextIndex, texts, loop)
                     /\ currentText' = << >>
                     /\ isTyping' = TRUE
                     /\ typingTimer' = EffectTimer(texts, isStarted)
    /\ UNCHANGED <<texts, loop, isStarted, isPaused>>
    /\ UNCHANGED <<bvars, fvars, props, svars, nvars, xvars>>

\* the pause after a full text is over: setIsTyping(false)
PauseTimeout ==
    /\ typingTimer = "setIsTyping"
    /\ isTyping' = FALSE
    /\ typingTimer' = EffectTimer(texts, isStarted)
    /\ UNCHANGED <<texts, loop, currentTextIndex, currentText, isStarted, isPaused>>
    /\ UNCHANGED <<bvars, fvars, props, svars, nvars, xvars>>

\* togglePause()
TogglePause ==
    /\ isPaused' = ~isPaused
    /\ UNCHANGED <<texts, loop, currentTextIndex, currentText, isTyping, isStarted,
                   typingTimer>>
    /\ UNCHANGED <<bvars, fvars, props, svars, nvars, xvars>>

\* restart(); the effect runs again when a state it depends on changed
Restart ==
    /\ currentTextIndex' = 0
    /\ currentText' = << >>
    /\ isTyping' = TRUE
    /\ isStarted' = FALSE
    /\ typingTimer' =
          IF <<currentTextIndex, currentText, isTyping, isStarted>>
                # <<0, << >>, TRUE, FALSE>>
          THEN EffectTimer(texts, FALSE) ELSE typingTimer
    /\ UNCHANGED <<texts, loop, isPaused>>
    /\ UNCHANGED <<bvars, fvars, props, svars, nvars, xvars>>

NextTyping ==
    \/ StartTimeout
    \/ HandleTyping
    \/ PauseTimeout
    \/ TogglePause
    \/ Restart

SpecTyping == InitTyping /\ [][NextTyping]_vars

\* TypingText of Hero: loop is true, texts is not empty, and the component
\* takes only currentText, so restart() is never called
InitTypingLoop ==
    /\ InitTyping
    /\ texts # << >>
    /\ loop

NextTypingLoop ==
    \/ StartTimeout
    \/ HandleTyping
    \/ PauseTimeout
    \/ TogglePause

\* a timeout that is pending fires
SpecTypingLoop ==
    /\ InitTypingLoop
    /\ [][NextTypingLoop]_vars
    /\ WF_vars(StartTimeout)
    /\ WF_vars(HandleTyping)
    /\ WF_vars(PauseTimeout)

\* the longest texts array of TypingTexts
MaxTexts == 3

\* texts[currentTextIndex]
CurrentFullText == texts[currentTextIndex + 1]

\* text number i of texts is on display in full
FullyDisplayed(i) ==
    currentTextIndex = i - 1 /\ currentText = texts[i]

\* one step of the rotation: nothing, one character more, the end of the
\* hold, one character less, or the move to the next index
RotationStep ==
    \/ UNCHANGED <<currentTextIndex, currentText, isTyping>>
    \/ /\ isStarted /\ isTyping /\ isTyping'
       /\ Len(currentText) < Len(CurrentFullText)
       /\ currentText' = SubSeq(CurrentFullText, 1, Len(currentText) + 1)
       /\ UNCHANGED currentTextIndex
    \/ /\ isStarted /\ isTyping /\ ~isTyping'
       /\ currentText = CurrentFullText
       /\ UNCHANGED <<currentTextIndex, currentText>>
    \/ /\ isStarted /\ ~isTyping /\ ~isTyping'
       /\ Len(currentText) > 0
       /\ currentText' = SubSeq(currentText, 1, Len(currentText) - 1)
       /\ UNCHANGED currentTextIndex
    \/ /\ isStarted /\ ~isTyping /\ isTyping'
       /\ currentText = << >>
       /\ currentText' = << >>
       /\ currentTextIndex' = (currentTextIndex + 1) % Len(texts)

\* C22: with loop and a non-empty texts array, after the start delay each
\* text is typed one character per step, held, deleted one character per
\* step and followed by the next index, the last by index 0; with timers
\* that fire, every text is fully displayed infinitely often.
C22_RotatesForever ==
    /\ [][RotationStep]_vars
    /\ \A i \in 1..MaxTexts : []<>(i > Len(texts) \/ FullyDisplayed(i))

\* the last of several texts is on display in full and is being deleted next
C22_Witness ==
    /\ Len(texts) >= 2
    /\ FullyDisplayed(Len(texts))
    /\ ~isTyping

\* s is a prefix of full
IsPrefix(s, full) ==
    Len(s) <= Len(full) /\ s = SubSeq(full, 1, Len(s))

\* C23: with a non-empty texts array, currentTextIndex is an index of texts
\* and currentText a prefix of texts[currentTextIndex] in every state; with
\* loop false the index decreases only through restart().
C23_IndexAndPrefix ==
    /\ [](texts # << >> =>
            /\ 0 <= currentTextIndex
            /\ currentTextIndex < Len(texts)
            /\ IsPrefix(currentText, CurrentFullText))
    /\ [][ (~loop /\ currentTextIndex' < currentTextIndex) => Restart ]_vars

\* without loop the last of several texts was typed and is being deleted
C23_Witness ==
    /\ ~loop
    /\ Len(texts) >= 2
    /\ currentTextIndex = Len(texts) - 1
    /\ currentText # << >>
    /\ IsPrefix(currentText, CurrentFullText)
    /\ ~isTyping

\* C16: while isPaused is true, a timeout that fires changes none of
\* currentText, currentTextIndex and isTyping.
C16_PausedTextStands ==
    [][ (isPaused /\ (StartTimeout \/ HandleTyping \/ PauseTimeout)) =>
            UNCHANGED <<currentText, currentTextIndex, isTyping>> ]_vars

-----------------------------------------------------------------------------
(* useScrollAnimation(options).  entries records the isIntersecting value  *)
(* of every entry the observer delivered since the mount, in order.        *)

MaxEntries == 4
MaxBatch == 2

\* the batches of entries one observer callback can receive
Batches ==
    UNION { [1..n -> BOOLEAN] : n \in 1..MaxBatch }

\* the revert branch taken whatever triggerOnce is
HandleEntryAlwaysReverts(visible, once, isIntersecting) ==
    isIntersecting

\* the body of entries.forEach: the value of isVisible after one entry
HandleEntry(visible, once, isIntersecting) ==
    IF isIntersecting THEN TRUE
    ELSE IF ~once THEN FALSE
    ELSE visible

\* handleIntersection(entries): the value of isVisible after the batch
RECURSIVE HandleIntersection(_, _, _)
HandleIntersection(visible, once, es) ==
    IF es = << >> THEN visible
    ELSE HandleIntersection(HandleEntry(visible, once, Head(es)), once, Tail(es))

\* whether the batch made the handler call observer.unobserve(entry.target)
Unobserved(once, es) ==
    once /\ \E i \in DOMAIN es : es[i]

\* before the component that calls useScrollAnimation is mounted
InitScroll ==
    /\ BackgroundIdle
    /\ FrameIdle
    /\ ExtraIdle
    /\ ConfigIdle
    /\ TypingIdle
    /\ NavIdle
    /\ triggerOnce \in BOOLEAN
    /\ scrollMounted = FALSE
    /\ isVisible = FALSE
    /\ observing = FALSE
    /\ entries = << >>

\* first render and effect; observable says whether elementRef.current and
\* window.IntersectionObserver are there
ScrollMount(observable) ==
    /\ ~scrollMounted
    /\ scrollMounted' = TRUE
    /\ isVisible' = FALSE
    /\ observing' = observable
    /\ entries' = << >>
    /\ UNCHANGED triggerOnce
    /\ UNCHANGED <<bvars, fvars, props, tvars, nvars, xvars>>

\* the observer calls handleIntersection(es)
Deliver(es) ==
    /\ observing
    /\ Len(entries) + Len(es) <= MaxEntries
    /\ isVisible' = HandleIntersection(isVisible, triggerOnce, es)
    /\ observing' = ~Unobserved(triggerOnce, es)
    /\ entries' = entries \o es
    /\ UNCHANGED <<triggerOnce, scrollMounted>>
    /\ UNCHANGED <<bvars, fvars, props, tvars, nvars, xvars>>

\* a render with another threshold or rootMargin: cleanup, then the effect again
ScrollRerender(observable) ==
    /\ scrollMounted
    /\ observing' = observable
    /\ UNCHANGED <<triggerOnce, scrollMounted, isVisible, entries>>
    /\ UNCHANGED <<bvars, fvars, props, tvars, nvars, xvars>>

\* unmount: the cleanup of the effect; the state of the hook is dropped
ScrollUnmount ==
    /\ scrollMounted
    /\ scrollMounted' = FALSE
    /\ observing' = FALSE
    /\ isVisible' = FALSE
    /\ entries' = << >>
    /\ UNCHANGED triggerOnce
    /\ UNCHANGED <<bvars, fvars, props, tvars, nvars, xvars>>

NextScroll ==
    \/ \E observable \in BOOLEAN : ScrollMount(observable)
    \/ \E es \in Batches : Deliver(es)
    \/ \E observable \in BOOLEAN : ScrollRerender(observable)
    \/ ScrollUnmount

SpecScroll == InitScroll /\ [][NextScroll]_vars

\* C18: with triggerOnce, isVisible is false until the first intersecting
\* entry and true ever after it, whatever entries follow; without
\* triggerOnce, isVisible is the isIntersecting value of the last entry
\* delivered (false before any entry).
C18_TriggerOnce ==
    IF triggerOnce
    THEN isVisible = (\E i \in DOMAIN entries : entries[i])
    ELSE isVisible = (entries # << >> /\ entries[Len(entries)])

\* with triggerOnce, a non-intersecting entry followed an intersecting one
C18_Witness ==
    /\ triggerOnce
    /\ isVisible
    /\ Len(entries) >= 2
    /\ ~entries[Len(entries)]
    /\ \E i \in DOMAIN entries : entries[i]

-----------------------------------------------------------------------------
(* NavigationService as App uses it.  A string is the sequence of its      *)
(* parts, "#" being a part of its own.  services counts the instances App  *)
(* constructed, hashListeners holds the instances whose hashchange         *)
(* listener is registered on window, navTimers the pending 100 ms          *)
(* timeouts, and navigated the navigateToSection calls of the last         *)
(* hashchange event.                                                       *)

MaxServices == 3

\* the ids of NAVIGATION_CONFIG
SectionIds ==
    { <<"hero">>, <<"about">>, <<"skills">>, <<"ai-productivity">>,
      <<"certificates">>, <<"contact">> }

\* the values of window.location.hash that are followed
Hashes ==
    { << >>, <<"#", "about">>, <<"#", "contact">>, <<"#", "nowhere">> }

\* s.replace('#', ''): s without its first "#"
StripHash(s) ==
    IF \E i \in DOMAIN s : s[i] = "#"
    THEN LET i == CHOOSE k \in DOMAIN s :
                      s[k] = "#" /\ \A j \in 1..(k - 1) : s[j] # "#"
         IN  SubSeq(s, 1, i - 1) \o SubSeq(s, i + 1, Len(s))
    ELSE s

\* sectionExists(sectionId)
SectionExists(sectionId) == sectionId \in SectionIds

\* updateURL(sectionId): the hash of the replaced URL
UpdateURL(sectionId) == <<"#">> \o sectionId

\* cleanup()
NavCleanup(listeners, svc) ==
    [scrollBehavior |-> "auto", hashListeners |-> listeners]

\* setupSmoothScrolling() of instance svc, setupHashNavigation() included
SetupSmoothScrolling(listeners, pending, hash, svc) ==
    LET sectionId == StripHash(hash)
    IN  [scrollBehavior |-> "smooth",
         hashListeners |-> listeners \cup {svc},
         navTimers |-> IF hash # << >> /\ SectionExists(sectionId)
                       THEN Append(pending, [svc |-> svc, sectionId |-> sectionId])
                       ELSE pending]

\* the page is loaded with some hash; App is not mounted yet
InitNav ==
    /\ BackgroundIdle
    /\ FrameIdle
    /\ ExtraIdle
    /\ ConfigIdle
    /\ TypingIdle
    /\ ScrollIdle
    /\ appMounted = FALSE
    /\ services = 0
    /\ hashListeners = {}
    /\ navTimers = << >>
    /\ locationHash \in Hashes
    /\ scrollBehavior = "auto"
    /\ navigated = << >>

\* first render of App: new NavigationService(), then the effect
AppMount ==
    /\ ~appMounted
    /\ services < MaxServices
    /\ LET set == SetupSmoothScrolling(hashListeners, navTimers, locationHash,
                                       services + 1)
       IN  /\ scrollBehavior' = set.scrollBehavior
           /\ hashListeners' = set.hashListeners
           /\ navTimers' = set.navTimers
    /\ appMounted' = TRUE
    /\ services' = services + 1
    /\ UNCHANGED <<locationHash, navigated>>
    /\ UNCHANGED <<bvars, fvars, props, tvars, svars, xvars>>

\* a later render of App: new NavigationService(); the dependency changed, so
\* the cleanup of the previous instance runs and then the effect
AppRerender ==
    /\ appMounted
    /\ services < MaxServices
    /\ LET clean == NavCleanup(hashListeners, services)
           set == SetupSmoothScrolling(clean.hashListeners, navTimers,
                                       locationHash, services + 1)
       IN  /\ scrollBehavior' = set.scrollBehavior
           /\ hashListeners' = set.hashListeners
           /\ navTimers' = set.navTimers
    /\ services' = services + 1
    /\ UNCHANGED <<appMounted, locationHash, navigated>>
    /\ UNCHANGED <<bvars, fvars, props, tvars, svars, xvars>>

\* App is unmounted: the cleanup of the effect
AppUnmount ==
    /\ appMounted
    /\ LET clean == NavCleanup(hashListeners, services)
       IN  /\ scrollBehavior' = clean.scrollBehavior
           /\ hashListeners' = clean.hashListeners
    /\ appMounted' = FALSE
    /\ UNCHANGED <<services, navTimers, locationHash, navigated>>
    /\ UNCHANGED <<bvars, fvars, props, tvars, svars, xvars>>

\* the hash changes to h: every registered listener runs, in registration order
HashChange(h) ==
    /\ h # locationHash
    /\ LET sectionId == StripHash(h)
           registered == SelectSeq([i \in 1..services |-> i],
                                   LAMBDA i : i \in hashListeners)
       IN  IF SectionExists(sectionId) /\ registered # << >>
           THEN /\ navigated' = [k \in DOMAIN registered |->
                                    [svc |-> registered[k], sectionId |-> sectionId]]
                /\ locationHash' = UpdateURL(sectionId)
           ELSE /\ navigated' = << >>
                /\ locationHash' = h
    /\ UNCHANGED <<appMounted, services, hashListeners, navTimers, scrollBehavior>>
    /\ UNCHANGED <<bvars, fvars, props, tvars, svars, xvars>>

\* a 100 ms timeout of setupHashNavigation fires: navigateToSection(sectionId)
NavTimeout ==
    /\ navTimers # << >>
    /\ navTimers' = Tail(navTimers)
    /\ locationHash' = UpdateURL(Head(navTimers).sectionId)
    /\ UNCHANGED <<appMounted, services, hashListeners, scrollBehavior, navigated>>
    /\ UNCHANGED <<bvars, fvars, props, tvars, svars, xvars>>

NextNav ==
    \/ AppMount
    \/ AppRerender
    \/ AppUnmount
    \/ \E h \in Hashes : HashChange(h)
    \/ NavTimeout

SpecNav == InitNav /\ [][NextNav]_vars

\* C17: at most one hashchange listener is registered at a time, none once
\* App is unmounted, and one hash change makes at most one navigateToSection
\* call.
C17_OneHashListener ==
    /\ Cardinality(hashListeners) <= 1
    /\ ~appMounted => hashListeners = {}
    /\ Len(navigated) <= 1

-----------------------------------------------------------------------------
(* validationUtils.js: BaseValidator and FormValidator.  A string is       *)
(* carried by what the validators read of it: its length and whether       *)
(* trim() leaves it empty.  A message is [text, n], n the length a         *)
(* MIN_LENGTH or MAX_LENGTH message names.                                 *)

Undefined == [type |-> "undefined", len |-> 0, blank |-> TRUE]

Str(len, blank) == [type |-> "string", len |-> len, blank |-> blank]

Message(text, n) == [text |-> text, n |-> n]

NoMessage == Message("", 0)

\* ValidationResult.success(value) and ValidationResult.error(message)
Success(value) == [isValid |-> TRUE, message |-> NoMessage, value |-> value]
Error(message) == [isValid |-> FALSE, message |-> message, value |-> Undefined]

\* BaseValidator.required(value)
Required(value) ==
    IF value.type = "undefined" \/ (value.type = "string" /\ value.blank)
    THEN Error(Message("REQUIRED", 0))
    ELSE Success(value)

\* BaseValidator.minLength(value, minLength)
MinLength(value, minLength) ==
    IF value.type # "string" THEN Error(Message("NOT_A_STRING", 0))
    ELSE IF value.len >= minLength THEN Success(value)
    ELSE Error(Message("MIN_LENGTH", minLength))

\* BaseValidator.maxLength(value, maxLength)
MaxLength(value, maxLength) ==
    IF value.type # "string" THEN Error(Message("NOT_A_STRING", 0))
    ELSE IF value.len <= maxLength THEN Success(value)
    ELSE Error(Message("MAX_LENGTH", maxLength))

\* a validator function of a rule, (value) => BaseValidator.<name>(value, n)
Validator(name, n) == [name |-> name, n |-> n]

\* validator(value)
Apply(validator, value) ==
    CASE validator.name = "required"  -> Required(value)
      [] validator.name = "minLength" -> MinLength(value, validator.n)
      [] validator.name = "maxLength" -> MaxLength(value, validator.n)

\* a Map with the entry key -> value set, and with the entry of key deleted
MapSet(map, key, value) ==
    [k \in DOMAIN map \cup {key} |-> IF k = key THEN value ELSE map[k]]
MapDelete(map, key) ==
    [k \in DOMAIN map \ {key} |-> map[k]]

EmptyMap == [k \in {} |-> 0]

\* validateField that leaves an earlier error of a field that passes
ValidateFieldKeepsError(rs, errs, fieldName, value) ==
    IF fieldName \notin DOMAIN rs
    THEN [errors |-> errs, result |-> Success(value)]
    ELSE LET validators == rs[fieldName]
             failing == {i \in DOMAIN validators : ~Apply(validators[i], value).isValid}
         IN  IF failing # {}
             THEN LET first == CHOOSE i \in failing : \A j \in failing : i <= j
                      result == Apply(validators[first], value)
                  IN  [errors |-> MapSet(errs, fieldName, result.message),
                       result |-> result]
             ELSE [errors |-> errs, result |-> Success(value)]

\* validateField(fieldName, value): the errors Map after it and what it returns
ValidateField(rs, errs, fieldName, value) ==
    IF fieldName \notin DOMAIN rs
    THEN [errors |-> errs, result |-> Success(value)]
    ELSE LET validators == rs[fieldName]
             failing == {i \in DOMAIN validators : ~Apply(validators[i], value).isValid}
         IN  IF failing # {}
             THEN LET first == CHOOSE i \in failing : \A j \in failing : i <= j
                      result == Apply(validators[first], value)
                  IN  [errors |-> MapSet(errs, fieldName, result.message),
                       result |-> result]
             ELSE [errors |-> MapDelete(errs, fieldName),
                   result |-> Success(value)]

\* the loop of validateAll over the fields that are left
RECURSIVE ValidateFields(_, _, _, _, _)
ValidateFields(rs, errs, data, left, isValid) ==
    IF left = {} THEN [errors |-> errs, isValid |-> isValid]
    ELSE LET fieldName == CHOOSE f \in left : TRUE
             call == ValidateField(rs, errs, fieldName, data[fieldName])
         IN  ValidateFields(rs, call.errors, data, left \ {fieldName},
                            isValid /\ call.result.isValid)

\* validateAll(data): the errors Map after it and what it returns
ValidateAll(rs, errs, data) ==
    LET loop_ == ValidateFields(rs, errs, data, DOMAIN rs, TRUE)
    IN  [errors |-> loop_.errors,
         returned |-> [isValid |-> loop_.isValid,
                       errors  |-> loop_.errors,
                       data    |-> IF loop_.isValid THEN data ELSE EmptyMap,
                       input   |-> data]]

Fields == {"nombre", "mensaje"}

\* the values a field of data takes; undefined stands for a missing field
Values ==
    {Undefined, Str(1, TRUE), Str(1, FALSE), Str(3, FALSE)}

\* the validator arrays handed to addRule
RuleSets ==
    { << >>,
      <<Validator("required", 0), Validator("minLength", 2)>>,
      <<Validator("minLength", 1), Validator("maxLength", 2)>> }

\* new FormValidator()
InitValidator ==
    /\ BackgroundIdle
    /\ FrameIdle
    /\ ConfigIdle
    /\ TypingIdle
    /\ ScrollIdle
    /\ NavIdle
    /\ ContactIdle
    /\ WorkerIdle
    /\ rules = EmptyMap
    /\ errors = EmptyMap
    /\ returned = << >>
    /\ fresh = FALSE

\* addRule(fieldName, validators)
AddRule(fieldName, validators) ==
    /\ rules' = MapSet(rules, fieldName, validators)
    /\ fresh' = FALSE
    /\ UNCHANGED <<errors, returned>>
    /\ UNCHANGED <<bvars, fvars, props, tvars, svars, nvars, kvars, wvars>>

\* validateField(fieldName, value)
ValidateFieldCall(fieldName, value) ==
    /\ errors' = ValidateField(rules, errors, fieldName, value).errors
    /\ fresh' = FALSE
    /\ UNCHANGED <<rules, returned>>
    /\ UNCHANGED <<bvars, fvars, props, tvars, svars, nvars, kvars, wvars>>

\* validateAll(data)
ValidateAllCall(data) ==
    /\ LET call == ValidateAll(rules, errors, data)
       IN  /\ errors' = call.errors
           /\ returned' = call.returned
    /\ fresh' = TRUE
    /\ UNCHANGED rules
    /\ UNCHANGED <<bvars, fvars, props, tvars, svars, nvars, kvars, wvars>>

\* clearErrors()
ClearErrors ==
    /\ errors' = EmptyMap
    /\ fresh' = FALSE
    /\ UNCHANGED <<rules, returned>>
    /\ UNCHANGED <<bvars, fvars, props, tvars, svars, nvars, kvars, wvars>>

\* clearFieldError(fieldName)
ClearFieldError(fieldName) ==
    /\ errors' = MapDelete(errors, fieldName)
    /\ fresh' = FALSE
    /\ UNCHANGED <<rules, returned>>
    /\ UNCHANGED <<bvars, fvars, props, tvars, svars, nvars, kvars, wvars>>

NextValidator ==
    \/ \E f \in Fields, vs \in RuleSets : AddRule(f, vs)
    \/ \E f \in Fields, v \in Values : ValidateFieldCall(f, v)
    \/ \E d \in [Fields -> Values] : ValidateAllCall(d)
    \/ ClearErrors
    \/ \E f \in Fields : ClearFieldError(f)

SpecValidator == InitValidator /\ [][NextValidator]_vars

\* the fields with a rule one of whose validators fails on data
Failing(data) ==
    {f \in DOMAIN rules :
        \E i \in DOMAIN rules[f] : ~Apply(rules[f][i], data[f]).isValid}

\* the validators of field f that come before validator i all pass
FirstFailing(f, i, data) ==
    /\ ~Apply(rules[f][i], data[f]).isValid
    /\ \A j \in 1..(i - 1) : Apply(rules[f][j], data[f]).isValid

\* C24: validateAll(data) returns isValid exactly when no field with a rule
\* fails; the errors it returns, and getErrors() after it, hold exactly the
\* failing fields, each with the message of its first failing validator,
\* whatever errors earlier calls recorded; the data it returns is the input
\* when valid and null otherwise.
C24_ValidateAll ==
    fresh =>
        LET data == returned.input
        IN  /\ returned.isValid = (Failing(data) = {})
            /\ DOMAIN returned.errors = Failing(data)
            /\ \A f \in Failing(data) :
                  \E i \in DOMAIN rules[f] :
                      /\ FirstFailing(f, i, data)
                      /\ returned.errors[f] = Apply(rules[f][i], data[f]).message
            /\ errors = returned.errors
            /\ returned.data = IF returned.isValid THEN data ELSE EmptyMap

\* validateAll over two ruled fields: nombre passes, mensaje fails on a
\* validator after its first
C24_Witness ==
    /\ fresh
    /\ ~returned.isValid
    /\ DOMAIN rules = Fields
    /\ DOMAIN returned.errors = {"mensaje"}
    /\ returned.errors["mensaje"].text \in {"MIN_LENGTH", "MAX_LENGTH"}
    /\ rules["nombre"] # << >>

-----------------------------------------------------------------------------
(* ContactFormspree (About.js).  The text of name, subject and message is  *)
(* a Str; the text of email also carries its characters (chars), which     *)
(* the e-mail pattern reads.  The inputs and both buttons are disabled     *)
(* while status is LOADING, and the reset button is rendered only when     *)
(* status is not IDLE.                                                     *)

FORM_STATUS ==
    [IDLE |-> "idle", LOADING |-> "loading", SUCCESS |-> "success", ERROR |-> "error"]

formConfig ==
    [validation |-> [minMessageLength |-> 10, maxMessageLength |-> 500]]

\* a string given by its characters
Text(chars) ==
    [type |-> "string", len |-> Len(chars),
     blank |-> \A i \in DOMAIN chars : chars[i] = " ", chars |-> chars]

INITIAL_FORM_DATA ==
    [name |-> Str(0, TRUE), email |-> Text(<< >>),
     subject |-> Str(0, TRUE), message |-> Str(0, TRUE)]

\* VALIDATION_PATTERNS.EMAIL.test(value.chars), over the letter "a", ".", "@"
\* and the blank: local part, "@", domain, ".", two letters or more
EmailPattern(chars) ==
    \E at, dot \in DOMAIN chars :
        /\ chars[at] = "@"
        /\ at > 1
        /\ \A k \in 1..(at - 1) : chars[k] \in {"a", "."}
        /\ dot > at + 1
        /\ chars[dot] = "."
        /\ \A k \in (at + 1)..(dot - 1) : chars[k] \in {"a", "."}
        /\ Len(chars) - dot >= 2
        /\ \A k \in (dot + 1)..Len(chars) : chars[k] = "a"

\* FieldValidators.email(email)
Email(value) ==
    IF value.type # "string" THEN Error(Message("NOT_A_STRING", 0))
    ELSE IF EmailPattern(value.chars) THEN Success(value)
    ELSE Error(Message("EMAIL_INVALID", 0))

\* the message of a field that fails required(), else of one shorter than
\* minLength, else none
RequiredThenMin(value, minLength) ==
    IF ~Required(value).isValid THEN Message("required", 0)
    ELSE IF ~MinLength(value, minLength).isValid THEN Message("minLength", minLength)
    ELSE NoMessage

\* validateForm() that takes a message of any length
ValidateFormNoLengths(data) ==
    LET name == RequiredThenMin(data.name, 2)
        email == IF ~Required(data.email).isValid THEN Message("required", 0)
                 ELSE IF ~Email(data.email).isValid THEN Message("invalid", 0)
                 ELSE NoMessage
        subject == RequiredThenMin(data.subject, 5)
        message == IF ~Required(data.message).isValid THEN Message("required", 0)
                   ELSE NoMessage
        found == [name |-> name, email |-> email, subject |-> subject,
                  message |-> message]
    IN  [f \in {g \in DOMAIN found : found[g] # NoMessage} |-> found[f]]

\* validateForm(): newErrors
ValidateForm(data) ==
    LET name == RequiredThenMin(data.name, 2)
        email == IF ~Required(data.email).isValid THEN Message("required", 0)
                 ELSE IF ~Email(data.email).isValid THEN Message("invalid", 0)
                 ELSE NoMessage
        subject == RequiredThenMin(data.subject, 5)
        minMessage == RequiredThenMin(data.message, formConfig.validation.minMessageLength)
        message == IF minMessage # NoMessage THEN minMessage
                   ELSE IF ~MaxLength(data.message,
                                      formConfig.validation.maxMessageLength).isValid
                   THEN Message("maxLength", formConfig.validation.maxMessageLength)
                   ELSE NoMessage
        found == [name |-> name, email |-> email, subject |-> subject,
                  message |-> message]
    IN  [f \in {g \in DOMAIN found : found[g] # NoMessage} |-> found[f]]

\* [name]: null of handleInputChange
NullMessage == Message("null", 0)

\* the texts typed into each field
FieldTexts ==
    [name    |-> {Str(0, TRUE), Str(1, FALSE), Str(2, FALSE)},
     email   |-> {Text(<< >>), Text(<<"a", "@", "a", ".", "a">>),
                  Text(<<"a", "@", "a", ".", "a", "a">>)},
     subject |-> {Str(0, TRUE), Str(5, FALSE)},
     message |-> {Str(0, TRUE), Str(9, FALSE), Str(10, FALSE), Str(501, FALSE)}]

\* first render of ContactFormspree
InitContact ==
    /\ BackgroundIdle
    /\ FrameIdle
    /\ ConfigIdle
    /\ TypingIdle
    /\ ScrollIdle
    /\ NavIdle
    /\ ValidatorIdle
    /\ WorkerIdle
    /\ formData = INITIAL_FORM_DATA
    /\ formErrors = EmptyMap
    /\ status = FORM_STATUS.IDLE
    /\ submitMessage = ""
    /\ requests = << >>
    /\ lastEvent = "none"

\* handleInputChange(e), e.target = {name, value}
HandleInputChange(name, value) ==
    /\ status # FORM_STATUS.LOADING
    /\ formData' = [formData EXCEPT ![name] = value]
    /\ formErrors' =
          IF name \in DOMAIN formErrors /\ formErrors[name] # NullMessage
          THEN MapSet(formErrors, name, NullMessage)
          ELSE formErrors
    /\ lastEvent' = "handleInputChange"
    /\ UNCHANGED <<status, submitMessage, requests>>
    /\ UNCHANGED <<bvars, fvars, props, tvars, svars, nvars, vvars, wvars>>

\* handleSubmit(e), up to the await of fetch
HandleSubmit ==
    /\ status # FORM_STATUS.LOADING
    /\ LET newErrors == ValidateForm(formData)
       IN  /\ formErrors' = newErrors
           /\ IF DOMAIN newErrors # {}
              THEN UNCHANGED <<status, submitMessage, requests>>
              ELSE /\ status' = FORM_STATUS.LOADING
                   /\ submitMessage' = ""
                   /\ requests' = Append(requests, formData)
    /\ lastEvent' = "handleSubmit"
    /\ UNCHANGED formData
    /\ UNCHANGED <<bvars, fvars, props, tvars, svars, nvars, vvars, wvars>>

\* handleSubmit that resumes after the await only when the response is ok
SettleIgnoresFailure(ok) ==
    /\ requests # << >>
    /\ requests' = Tail(requests)
    /\ IF ok
       THEN /\ status' = FORM_STATUS.SUCCESS
            /\ submitMessage' = "sent"
            /\ formData' = INITIAL_FORM_DATA
       ELSE UNCHANGED <<status, submitMessage, formData>>
    /\ lastEvent' = "settle"
    /\ UNCHANGED formErrors
    /\ UNCHANGED <<bvars, fvars, props, tvars, svars, nvars, vvars, wvars>>

\* the fetch settles: ok is response.ok, or FALSE for a rejected request;
\* handleSubmit resumes after the await
Settle(ok) ==
    /\ requests # << >>
    /\ requests' = Tail(requests)
    /\ IF ok
       THEN /\ status' = FORM_STATUS.SUCCESS
            /\ submitMessage' = "sent"
            /\ formData' = INITIAL_FORM_DATA
       ELSE /\ status' = FORM_STATUS.ERROR
            /\ submitMessage' = "not sent"
            /\ UNCHANGED formData
    /\ lastEvent' = "settle"
    /\ UNCHANGED formErrors
    /\ UNCHANGED <<bvars, fvars, props, tvars, svars, nvars, vvars, wvars>>

\* resetForm()
ResetForm ==
    /\ status \notin {FORM_STATUS.IDLE, FORM_STATUS.LOADING}
    /\ formData' = INITIAL_FORM_DATA
    /\ formErrors' = EmptyMap
    /\ status' = FORM_STATUS.IDLE
    /\ submitMessage' = ""
    /\ lastEvent' = "resetForm"
    /\ UNCHANGED requests
    /\ UNCHANGED <<bvars, fvars, props, tvars, svars, nvars, vvars, wvars>>

NextContact ==
    \/ \E name \in DOMAIN FieldTexts : \E value \in FieldTexts[name] :
          HandleInputChange(name, value)
    \/ HandleSubmit
    \/ \E ok \in BOOLEAN : Settle(ok)
    \/ ResetForm

SpecContact == InitContact /\ [][NextContact]_vars

\* the fields of data that are empty, too short, too long or no e-mail address
InvalidFields(data) ==
    {f \in {"name"} : data.name.blank \/ data.name.len < 2}
        \cup {f \in {"email"} : data.email.blank \/ ~EmailPattern(data.email.chars)}
        \cup {f \in {"subject"} : data.subject.blank \/ data.subject.len < 5}
        \cup {f \in {"message"} :
                \/ data.message.blank
                \/ data.message.len < formConfig.validation.minMessageLength
                \/ data.message.len > formConfig.validation.maxMessageLength}

StatusChanges ==
    { <<FORM_STATUS.IDLE, FORM_STATUS.LOADING>>,
      <<FORM_STATUS.SUCCESS, FORM_STATUS.LOADING>>,
      <<FORM_STATUS.ERROR, FORM_STATUS.LOADING>>,
      <<FORM_STATUS.LOADING, FORM_STATUS.SUCCESS>>,
      <<FORM_STATUS.LOADING, FORM_STATUS.ERROR>>,
      <<FORM_STATUS.SUCCESS, FORM_STATUS.IDLE>>,
      <<FORM_STATUS.ERROR, FORM_STATUS.IDLE>> }

\* C26: status is LOADING exactly while a request has not settled; status
\* moves from IDLE, SUCCESS or ERROR to LOADING by a valid submit, from
\* LOADING to SUCCESS (formData reset) or ERROR (formData kept) when the
\* request settles, and to IDLE by resetForm, which empties formData, the
\* errors and the message.
C26_StatusFlow ==
    /\ [](status = FORM_STATUS.LOADING <=> requests # << >>)
    /\ [][ /\ status' # status => <<status, status'>> \in StatusChanges
           /\ (HandleSubmit /\ InvalidFields(formData) = {}) =>
                  status' = FORM_STATUS.LOADING
           /\ status' = FORM_STATUS.LOADING /\ status # FORM_STATUS.LOADING =>
                  HandleSubmit /\ InvalidFields(formData) = {}
           /\ status = FORM_STATUS.LOADING /\ requests' = << >> =>
                  \/ status' = FORM_STATUS.SUCCESS /\ formData' = INITIAL_FORM_DATA
                  \/ status' = FORM_STATUS.ERROR /\ formData' = formData
           /\ ResetForm =>
                  /\ status' = FORM_STATUS.IDLE
                  /\ formData' = INITIAL_FORM_DATA
                  /\ formErrors' = EmptyMap
                  /\ submitMessage' = "" ]_vars

\* a request failed: status is ERROR and the form still holds what was sent
C26_Witness ==
    /\ lastEvent = "settle"
    /\ status = FORM_STATUS.ERROR
    /\ requests = << >>
    /\ InvalidFields(formData) = {}

-----------------------------------------------------------------------------
(* The service worker (public/sw.js).  A cache is the set of the URLs it   *)
(* holds a response for.  The worker is installed, then activated, and     *)
(* fetch events reach it once it is activated.                             *)

CACHE_NAME == "cv-web-v1.0.0"

urlsToCache == {"/", "/manifest.json"}

\* the URLs the page requests
Urls == urlsToCache \cup {"/static/js/main.js", "/favicon.ico"}

\* what CacheStorage can hold when the worker is registered: nothing, or a
\* cache of an earlier version or of this one
StoredCaches ==
    {EmptyMap}
        \cup { [n \in {name} |-> held] :
                  name \in {"cv-web-v0.9.0", CACHE_NAME}, held \in SUBSET Urls }

\* caches.match(request) finds a response in some cache
Matches(store, url) == \E n \in DOMAIN store : url \in store[n]

\* the fetch handler with the network response put into the cache
RespondAndStore(store, url, netOk) ==
    IF Matches(store, url)
    THEN [caches |-> store, from |-> "cache", network |-> FALSE]
    ELSE [caches |-> IF netOk
                     THEN MapSet(store, CACHE_NAME,
                                 (IF CACHE_NAME \in DOMAIN store
                                  THEN store[CACHE_NAME] ELSE {}) \cup {url})
                     ELSE store,
          from |-> IF netOk THEN "network" ELSE "undefined",
          network |-> TRUE]

\* the fetch handler: CacheStorage after it, where the response came from,
\* and whether fetch(event.request) was called
Respond(store, url, netOk) ==
    IF Matches(store, url)
    THEN [caches |-> store, from |-> "cache", network |-> FALSE]
    ELSE [caches |-> store,
          from |-> IF netOk THEN "network" ELSE "undefined",
          network |-> TRUE]

\* the worker script is parsed and registered
InitWorker ==
    /\ BackgroundIdle
    /\ FrameIdle
    /\ ConfigIdle
    /\ TypingIdle
    /\ ScrollIdle
    /\ NavIdle
    /\ ValidatorIdle
    /\ ContactIdle
    /\ caches \in StoredCaches
    /\ lastFetch = << >>
    /\ workerState = "parsed"

\* the install event: caches.open(CACHE_NAME), then cache.addAll(urlsToCache),
\* which adds every URL or, when a request fails, none
Install(netOk) ==
    /\ workerState = "parsed"
    /\ workerState' = "installed"
    /\ LET opened == IF CACHE_NAME \in DOMAIN caches THEN caches[CACHE_NAME] ELSE {}
       IN  caches' = MapSet(caches, CACHE_NAME,
                            IF netOk THEN opened \cup urlsToCache ELSE opened)
    /\ UNCHANGED lastFetch
    /\ UNCHANGED <<bvars, fvars, props, tvars, svars, nvars, vvars, kvars>>

\* the activate event: every cache of another name is deleted
Activate ==
    /\ workerState = "installed"
    /\ workerState' = "activated"
    /\ caches' = [n \in DOMAIN caches \cap {CACHE_NAME} |-> caches[n]]
    /\ UNCHANGED lastFetch
    /\ UNCHANGED <<bvars, fvars, props, tvars, svars, nvars, vvars, kvars>>

\* a fetch event for url
Fetch(url, netOk) ==
    /\ workerState = "activated"
    /\ LET answer == Respond(caches, url, netOk)
       IN  /\ caches' = answer.caches
           /\ lastFetch' = [url |-> url, from |-> answer.from,
                            network |-> answer.network]
    /\ UNCHANGED workerState
    /\ UNCHANGED <<bvars, fvars, props, tvars, svars, nvars, vvars, kvars>>

NextWorker ==
    \/ \E netOk \in BOOLEAN : Install(netOk)
    \/ Activate
    \/ \E url \in Urls, netOk \in BOOLEAN : Fetch(url, netOk)

SpecWorker == InitWorker /\ [][NextWorker]_vars

\* C27: a fetch for a URL the cache holds is answered from the cache
\* without the network, any other goes to the network, and no fetch
\* changes the cache content, which changes only at install and activate.
C27_CacheFirstReadOnly ==
    [][ /\ caches' # caches => workerState' # workerState
        /\ \A url \in Urls, netOk \in BOOLEAN :
              Fetch(url, netOk) =>
                  /\ UNCHANGED caches
                  /\ lastFetch'.network = ~Matches(caches, url)
                  /\ Matches(caches, url) => lastFetch'.from = "cache"
                  /\ lastFetch'.from = "cache" => Matches(caches, url) ]_vars

\* a URL that install did not cache went to the network, and the cache
\* still holds what install put there
C27_Witness ==
    /\ workerState = "activated"
    /\ lastFetch # << >>
    /\ lastFetch.network
    /\ lastFetch.from = "network"
    /\ lastFetch.url \notin urlsToCache
    /\ DOMAIN caches = {CACHE_NAME}
    /\ caches[CACHE_NAME] = urlsToCache

====
